---- MODULE Spec2Model ----
(***************************************************************************)
(* The GOLDBERG 300 virtual sterilizer: the process controller            *)
(* (packages/core-sterilizer/index.ts, createSterilizerEngine) driving a   *)
(* SimulationIO port (packages/io-simulation/index.ts).                    *)
(*                                                                         *)
(* Units.  Pressures are integers in units of 0.001 MPa (0.35 MPa = 350),  *)
(* temperatures integers in degrees C, times integers in seconds, the     *)
(* water level an integer percentage.  Wall-clock values (now(),           *)
(* Date.now(): ids, timestamps, startedAt, endedAt, durationSec,           *)
(* lastTickMs, currentCycleStart), the peaks of the cycle (maxTemp,        *)
(* maxPressure) and the peaks and the copy of the active errors kept in a  *)
(* CycleSummary are not modelled.  Readings are finite numbers.  A step    *)
(* (tick) is taken atomically with respect to commands, except in          *)
(* SpecAsync, where the step is taken in the segments between the await    *)
(* points of the async function tick.                                      *)
(***************************************************************************)
EXTENDS Integers, Sequences, FiniteSets, TLC

VARIABLES
  state,                      \* SterilizerState (getState())
  currentProgram,             \* closure: program used by the state machine
  completedPrevacuums,        \* closure: pre-vacuum pulse counter
  sterilizationTempLowSec,    \* closure: low-temperature seconds during hold
  currentVacuumStartPressure, \* closure: vacuum-test baseline
  pausedCycle,                \* closure: runtime held during a power failure
  physical,                   \* SimulationIO.physical
  inFlight                    \* the call of tick suspended at an await, or Null

vars == <<state, currentProgram, completedPrevacuums,
          sterilizationTempLowSec, currentVacuumStartPressure, pausedCycle,
          physical, inFlight>>

----------------------------------------------------------------------------
(* Bounds of the model.                                                    *)

\* lastCompletedCycles keeps the newest 50 summaries in the source; the model
\* keeps the newest MaxCycleHistory.
MaxCycleHistory == 2
\* errorHistory keeps the newest 100 events in the source; the model keeps the
\* newest MaxErrorHistory.
MaxErrorHistory == 2
\* lastVacuumTests keeps the newest 20 results in the source; the model keeps
\* the newest MaxVacuumHistory.
MaxVacuumHistory == 1
\* state.errors is unbounded in the source; runs of the model stop raising
\* alarms once it holds MaxActiveErrors events.
MaxActiveErrors == 2

----------------------------------------------------------------------------
(* Values.                                                                 *)

\* null / undefined
Null == [null |-> TRUE]

Min(a, b) == IF a < b THEN a ELSE b
Max(a, b) == IF a > b THEN a ELSE b

\* xs.slice(0, n)
Slice(xs, n) == SubSeq(xs, 1, Min(n, Len(xs)))

\* { ...a, ...b }
Spread(a, b) ==
  [k \in (DOMAIN a) \cup (DOMAIN b) |-> IF k \in DOMAIN b THEN b[k] ELSE a[k]]

\* {}
EmptyObject == [k \in {} |-> 0]

PHASE_DEFAULTS ==
  [IDLE |-> 0, PREHEAT |-> 60, PREVACUUM |-> 20, HEAT_UP |-> 90,
   STERILIZATION |-> 300, DRYING |-> 60, DEPRESSURIZE |-> 20, COOLING |-> 40,
   COMPLETE |-> 0, ERROR |-> 0]

Phases == DOMAIN PHASE_DEFAULTS

RunningPhases ==
  {"PREHEAT", "PREVACUUM", "HEAT_UP", "STERILIZATION", "DRYING",
   "DEPRESSURIZE", "COOLING"}

\* The messages of the events are the source's, given in English.
ErrorCodes ==
  {"HEATING_TIMEOUT", "OVERPRESSURE", "OVERTEMP", "NO_WATER", "VACUUM_FAIL",
   "SENSOR_FAILURE", "DOOR_OPEN", "POWER_ERROR", "USER_STOP"}

\* options.programs: the configured program templates
programs ==
  { [id |-> "prog_134", name |-> "Instruments 134C", setTempC |-> 134,
     sterilizationTimeSec |-> 90, preVacuumCount |-> 2, dryingTimeSec |-> 0],
    [id |-> "prog_121", name |-> "Textile 121C", setTempC |-> 121,
     sterilizationTimeSec |-> 60, preVacuumCount |-> 1, dryingTimeSec |-> 60] }

\* program ids a caller passes to startCycle: the configured ones and one
\* that is not configured
ProgramIds == {p.id : p \in programs}
UnknownProgramId == "prog_unknown"

\* programs.find((p) => p.id === programId) || null
\* find that falls back to the first program
FindProgramOrFirst(programId) ==
  IF \E p \in programs : p.id = programId
    THEN CHOOSE p \in programs : p.id = programId
    ELSE CHOOSE p \in programs : p.id = "prog_134"

FindProgram(programId) ==
  IF \E p \in programs : p.id = programId
    THEN CHOOSE p \in programs : p.id = programId
    ELSE Null

\* overrides a caller passes to setProgramOverride
OverrideInputs ==
  { [preVacuumCount |-> 1], [sterilizationTimeSec |-> 60] }
OverrideIds == {"prog_134"}

\* offsets a caller passes to setCalibrationOffsets
CalibrationInputs ==
  { [chamberPressureOffset |-> 100], [chamberPressureOffset |-> 250],
    [chamberTempOffsetC |-> 10] }

\* configurations a caller passes to startVacuumTest
VacuumTestConfigs ==
  { [stabilizationTimeSec |-> 60, testTimeSec |-> 60] }

\* configurations of the leak tests: 0.5, 1 and 1.5 minutes of test
LeakTestConfigs ==
  { [stabilizationTimeSec |-> 30, testTimeSec |-> t] : t \in {30, 60, 90} }

\* dtMs passed to tick
DtChoices == {30000}

\* dtMs passed to tick by a driver whose timer fired late
LateDtChoices == {60000}

\* dtMs passed to tick by a driver that turns every 20 s
HoldDtChoices == {20000}

\* What the port's analog sensors can read at a step.
Reading(chamberP, chamberT, generatorT, water) ==
  [chamberPressureMPa |-> chamberP, chamberTemperatureC |-> chamberT,
   generatorPressureMPa |-> IF generatorT > 100 THEN 300 ELSE 0,
   generatorTemperatureC |-> generatorT,
   jacketPressureMPa |-> 0, waterLevelPercent |-> water]

\* cold and empty
ColdReading == Reading(0, 20, 20, 100)
\* at sterilization conditions
HotReading == Reading(300, 134, 140, 100)
\* chamber too cold for the hold at 134, generator hot
LowTempReading == Reading(100, 125, 140, 100)
\* chamber pressure above the alarm threshold
OverpressureReading == Reading(400, 134, 140, 100)
\* chamber pressure beyond the sensor range
OutOfRangeReading == Reading(600, 134, 140, 100)
\* overpressure, overtemperature and no water at once
MultiAlarmReading == Reading(400, 150, 140, 3)

\* chamber pressures of a leak test, a few thousandths of a MPa apart
LeakPressures == {0, 3, 5, 8}
LeakReadings == {Reading(p, 20, 20, 100) : p \in LeakPressures}

\* readings at and beyond each limit of the sensor ranges
RangeReadings ==
  {Reading(p, 20, 20, 100) : p \in {-201, -200, 500, 501}}
    \cup {Reading(0, t, 20, 100) : t \in {-11, -10, 200, 201}}
    \cup {Reading(0, 20, t, 100) : t \in {-11, -10, 200, 201}}
    \cup {Reading(0, 20, 20, w) : w \in {-1, 0, 110, 111}}
    \cup {[ColdReading EXCEPT !.generatorPressureMPa = p] :
             p \in {-201, -200, 500, 501}}

Readings ==
  {ColdReading, HotReading, LowTempReading, OverpressureReading,
   OutOfRangeReading, MultiAlarmReading}

\* a cold chamber over a generator that has run dry
DryReading == Reading(0, 20, 20, 3)

\* the readings of the steps in which an alarm meets a transition
AlarmReadings == Readings \cup {DryReading}

\* the readings of a run without sensor faults
CoreReadings == {ColdReading, HotReading, OverpressureReading}

\* the readings of a run without alarms
NominalReadings == {ColdReading, HotReading}

----------------------------------------------------------------------------
(* The engine: createSterilizerEngine.  An engine value e is a record of   *)
(* the variables; every function of the source is an operator from engine  *)
(* values to engine values.                                                *)

Cur ==
  [state |-> state, currentProgram |-> currentProgram,
   completedPrevacuums |-> completedPrevacuums,
   sterilizationTempLowSec |-> sterilizationTempLowSec,
   currentVacuumStartPressure |-> currentVacuumStartPressure,
   pausedCycle |-> pausedCycle, physical |-> physical]

\* The engine becomes e.
CommitEngine(e) ==
  /\ state' = e.state
  /\ currentProgram' = e.currentProgram
  /\ completedPrevacuums' = e.completedPrevacuums
  /\ sterilizationTempLowSec' = e.sterilizationTempLowSec
  /\ currentVacuumStartPressure' = e.currentVacuumStartPressure
  /\ pausedCycle' = e.pausedCycle
  /\ physical' = e.physical

\* The engine becomes e; the call of tick in flight, if any, stays where it is.
Commit(e) ==
  /\ inFlight' = inFlight
  /\ CommitEngine(e)

InitialState ==
  [chamber |-> [pressureMPa |-> 0, temperatureC |-> 20],
   generator |-> [pressureMPa |-> 0, temperatureC |-> 20,
                  waterLevelPercent |-> 100],
   jacket |-> [pressureMPa |-> 0],
   door |-> [locked |-> FALSE, open |-> TRUE],
   cycle |-> [active |-> FALSE, currentPhase |-> "IDLE", phaseElapsedSec |-> 0,
              phaseTotalSec |-> 0, totalElapsedSecSec |-> 0,
              currentProgram |-> Null],
   errors |-> <<>>,
   warnings |-> <<>>,
   errorHistory |-> <<>>,
   lastCompletedCycles |-> <<>>,
   vacuumTest |-> [active |-> FALSE, phase |-> "IDLE", elapsedSec |-> 0,
                   stabilizationTimeSec |-> 300, testTimeSec |-> 300,
                   basePressureMPa |-> <<>>, result |-> "none",
                   leakRateMPaPerMin |-> <<>>],
   lastVacuumTests |-> <<>>,
   programOverrides |-> EmptyObject,
   calibrationOffsets |-> [chamberTempOffsetC |-> 0, chamberPressureOffset |-> 0,
                           generatorTempOffsetC |-> 0,
                           generatorPressureOffset |-> 0],
   powerFailure |-> [pending |-> FALSE]]

\* new SimulationIO(initial): the defaults, the door flags as constructed
InitialPhysical(doorOpen, doorLocked) ==
  [chamberPressureMPa |-> 0, chamberTemperatureC |-> 20,
   generatorPressureMPa |-> 0, generatorTemperatureC |-> 20,
   jacketPressureMPa |-> 0, waterLevelPercent |-> 100,
   doorOpen |-> doorOpen, doorLocked |-> doorLocked,
   heaterOn |-> FALSE, steamInletValveOpen |-> FALSE,
   steamExhaustValveOpen |-> FALSE, vacuumPumpOn |-> FALSE,
   waterPumpOn |-> FALSE]

\* SimulationIO.writeActuators: fields are set if present
writeActuators(e, cmd) ==
  LET p == e.physical
      set(f) == IF f \in DOMAIN cmd THEN cmd[f] ELSE p[f]
  IN  [e EXCEPT !.physical =
        [p EXCEPT !.heaterOn = set("heaterOn"),
                  !.steamInletValveOpen = set("steamInletValveOpen"),
                  !.steamExhaustValveOpen = set("steamExhaustValveOpen"),
                  !.vacuumPumpOn = set("vacuumPumpOn"),
                  !.waterPumpOn = set("waterPumpOn"),
                  !.doorLocked =
                     IF "doorLockOn" \in DOMAIN cmd THEN cmd.doorLockOn ELSE @,
                  !.doorOpen =
                     IF "doorLockOn" \in DOMAIN cmd
                       THEN (~cmd.doorLockOn) /\ @ ELSE @]]

\* primaryErrorCode is "none" when the argument is omitted
recordCycle(e, result, primaryErrorCode) ==
  IF e.state.cycle.currentProgram = Null THEN e
  ELSE
    LET summary ==
          [programId |-> e.state.cycle.currentProgram.id,
           programName |-> e.state.cycle.currentProgram.name,
           result |-> result, success |-> (result = "success"),
           primaryErrorCode |-> primaryErrorCode]
    IN [e EXCEPT !.state.lastCompletedCycles =
          Slice(<<summary>> \o @, MaxCycleHistory)]

\* syncSensors that mirrors the raw readings
syncSensorsRaw(e) ==
  LET sensors == e.physical
  IN [e EXCEPT
       !.state.chamber =
          [pressureMPa |-> sensors.chamberPressureMPa,
           temperatureC |-> sensors.chamberTemperatureC],
       !.state.generator =
          [pressureMPa |-> sensors.generatorPressureMPa,
           temperatureC |-> sensors.generatorTemperatureC,
           waterLevelPercent |-> sensors.waterLevelPercent],
       !.state.jacket = [pressureMPa |-> sensors.jacketPressureMPa],
       !.state.door = [locked |-> sensors.doorLocked, open |-> sensors.doorOpen]]

syncSensors(e) ==
  LET sensors == e.physical
      cOff == e.state.calibrationOffsets
  IN [e EXCEPT
       !.state.chamber =
          [pressureMPa |-> sensors.chamberPressureMPa + cOff.chamberPressureOffset,
           temperatureC |-> sensors.chamberTemperatureC + cOff.chamberTempOffsetC],
       !.state.generator =
          [pressureMPa |-> sensors.generatorPressureMPa + cOff.generatorPressureOffset,
           temperatureC |-> sensors.generatorTemperatureC + cOff.generatorTempOffsetC,
           waterLevelPercent |-> sensors.waterLevelPercent],
       !.state.jacket = [pressureMPa |-> sensors.jacketPressureMPa],
       !.state.door = [locked |-> sensors.doorLocked, open |-> sensors.doorOpen]]

\* pushError without the change of phase
pushErrorKeepsPhase(e, code, message) ==
  IF e.state.cycle.currentPhase = "ERROR" THEN e
  ELSE
    LET evt == [code |-> code, message |-> message]
        e1 == [e EXCEPT !.state.errors = Append(@, evt),
                        !.state.errorHistory = Slice(<<evt>> \o @, MaxErrorHistory),
                        !.state.cycle.active = FALSE]
    IN recordCycle(e1, "error", code)

\* pushError that keeps the history oldest first
pushErrorOldestFirst(e, code, message) ==
  IF e.state.cycle.currentPhase = "ERROR" THEN e
  ELSE
    LET evt == [code |-> code, message |-> message]
        e1 == [e EXCEPT !.state.errors = Append(@, evt),
                        !.state.errorHistory = Slice(@ \o <<evt>>, MaxErrorHistory),
                        !.state.cycle.currentPhase = "ERROR",
                        !.state.cycle.active = FALSE]
    IN recordCycle(e1, "error", code)

pushError(e, code, message) ==
  IF e.state.cycle.currentPhase = "ERROR" THEN e
  ELSE
    LET evt == [code |-> code, message |-> message]
        e1 == [e EXCEPT !.state.errors = Append(@, evt),
                        !.state.errorHistory = Slice(<<evt>> \o @, MaxErrorHistory),
                        !.state.cycle.currentPhase = "ERROR",
                        !.state.cycle.active = FALSE]
    IN recordCycle(e1, "error", code)

\* the check of the sensors without the water level
SensorsInvalidNoWater(e) ==
  LET chamber == e.state.chamber
      generator == e.state.generator
  IN \/ chamber.pressureMPa < -200
     \/ chamber.pressureMPa > 500
     \/ generator.pressureMPa < -200
     \/ generator.pressureMPa > 500
     \/ chamber.temperatureC < -10
     \/ chamber.temperatureC > 200
     \/ generator.temperatureC < -10
     \/ generator.temperatureC > 200

SensorsInvalid(e) ==
  LET chamber == e.state.chamber
      generator == e.state.generator
  IN \/ generator.waterLevelPercent < 0
     \/ generator.waterLevelPercent > 110
     \/ chamber.pressureMPa < -200
     \/ chamber.pressureMPa > 500
     \/ generator.pressureMPa < -200
     \/ generator.pressureMPa > 500
     \/ chamber.temperatureC < -10
     \/ chamber.temperatureC > 200
     \/ generator.temperatureC < -10
     \/ generator.temperatureC > 200

validateSensors(e) ==
  IF SensorsInvalid(e)
    THEN pushError(e, "SENSOR_FAILURE", "invalid sensor readings")
    ELSE e

----------------------------------------------------------------------------
(* tick                                                                    *)

\* timers that do not advance
tickTimersFrozen(e, dtSec) == e

\* 2. timers of the phase and the cycle
tickTimers(e, dtSec) ==
  IF e.state.cycle.active
    THEN [e EXCEPT !.state.cycle.phaseElapsedSec = @ + dtSec,
                   !.state.cycle.totalElapsedSecSec = @ + dtSec]
    ELSE e

\* leakRate, as the fraction num/den of 0.001 MPa per minute:
\* durationMin > 0 ? Math.max(0, (p - start) / durationMin) : 0
\* with durationMin = testTimeSec / 60
LeakRate(pressure, startPressure, testTimeSec) ==
  IF testTimeSec > 0
    THEN [num |-> Max(0, (pressure - startPressure) * 60), den |-> testTimeSec]
    ELSE [num |-> 0, den |-> 1]

\* leakRate < 0.005
LeakPassStrict(leakRate) == leakRate.num < 5 * leakRate.den

\* leakRate <= 0.005
LeakPass(leakRate) == leakRate.num <= 5 * leakRate.den

\* the vacuum test that enters TEST without restarting the elapsed time
tickVacuumTestKeepsElapsed(e, dtSec) ==
  IF ~(e.state.vacuumTest.active /\ ~e.state.cycle.active) THEN e
  ELSE
    LET e1 == [e EXCEPT !.state.vacuumTest.elapsedSec = @ + dtSec]
        vt == e1.state.vacuumTest
    IN
    IF vt.phase = "STABILIZE" /\ vt.elapsedSec >= vt.stabilizationTimeSec THEN
      [e1 EXCEPT !.state.vacuumTest.phase = "TEST",
                 !.currentVacuumStartPressure = e1.state.chamber.pressureMPa,
                 !.state.vacuumTest.basePressureMPa =
                    <<e1.state.chamber.pressureMPa>>]
    ELSE IF vt.phase = "TEST" /\ vt.elapsedSec >= vt.testTimeSec THEN
      LET leakRate == LeakRate(e1.state.chamber.pressureMPa,
                               e1.currentVacuumStartPressure, vt.testTimeSec)
          result == [result |-> IF LeakPass(leakRate) THEN "PASS" ELSE "FAIL",
                     leakRateMPaPerMin |-> leakRate]
          e2 == [e1 EXCEPT
                  !.state.lastVacuumTests =
                     Slice(<<result>> \o @, MaxVacuumHistory),
                  !.state.vacuumTest =
                     [active |-> FALSE, phase |-> "IDLE", elapsedSec |-> 0,
                      stabilizationTimeSec |-> vt.stabilizationTimeSec,
                      testTimeSec |-> vt.testTimeSec,
                      basePressureMPa |-> <<>>, result |-> result.result,
                      leakRateMPaPerMin |-> <<leakRate>>]]
      IN writeActuators(e2, [vacuumPumpOn |-> FALSE,
                             steamExhaustValveOpen |-> FALSE,
                             steamInletValveOpen |-> FALSE])
    ELSE IF vt.phase = "STABILIZE" THEN
      writeActuators(e1, [vacuumPumpOn |-> TRUE, steamExhaustValveOpen |-> TRUE,
                          steamInletValveOpen |-> FALSE, heaterOn |-> FALSE])
    ELSE IF vt.phase = "TEST" THEN
      writeActuators(e1, [vacuumPumpOn |-> FALSE, steamExhaustValveOpen |-> FALSE,
                          steamInletValveOpen |-> FALSE, heaterOn |-> FALSE])
    ELSE e1

\* 2a. the vacuum test
tickVacuumTest(e, dtSec) ==
  IF ~(e.state.vacuumTest.active /\ ~e.state.cycle.active) THEN e
  ELSE
    LET e1 == [e EXCEPT !.state.vacuumTest.elapsedSec = @ + dtSec]
        vt == e1.state.vacuumTest
    IN
    IF vt.phase = "STABILIZE" /\ vt.elapsedSec >= vt.stabilizationTimeSec THEN
      [e1 EXCEPT !.state.vacuumTest.phase = "TEST",
                 !.state.vacuumTest.elapsedSec = 0,
                 !.currentVacuumStartPressure = e1.state.chamber.pressureMPa,
                 !.state.vacuumTest.basePressureMPa =
                    <<e1.state.chamber.pressureMPa>>]
    ELSE IF vt.phase = "TEST" /\ vt.elapsedSec >= vt.testTimeSec THEN
      LET leakRate == LeakRate(e1.state.chamber.pressureMPa,
                               e1.currentVacuumStartPressure, vt.testTimeSec)
          result == [result |-> IF LeakPass(leakRate) THEN "PASS" ELSE "FAIL",
                     leakRateMPaPerMin |-> leakRate]
          e2 == [e1 EXCEPT
                  !.state.lastVacuumTests =
                     Slice(<<result>> \o @, MaxVacuumHistory),
                  !.state.vacuumTest =
                     [active |-> FALSE, phase |-> "IDLE", elapsedSec |-> 0,
                      stabilizationTimeSec |-> vt.stabilizationTimeSec,
                      testTimeSec |-> vt.testTimeSec,
                      basePressureMPa |-> <<>>, result |-> result.result,
                      leakRateMPaPerMin |-> <<leakRate>>]]
      IN writeActuators(e2, [vacuumPumpOn |-> FALSE,
                             steamExhaustValveOpen |-> FALSE,
                             steamInletValveOpen |-> FALSE])
    ELSE IF vt.phase = "STABILIZE" THEN
      writeActuators(e1, [vacuumPumpOn |-> TRUE, steamExhaustValveOpen |-> TRUE,
                          steamInletValveOpen |-> FALSE, heaterOn |-> FALSE])
    ELSE IF vt.phase = "TEST" THEN
      writeActuators(e1, [vacuumPumpOn |-> FALSE, steamExhaustValveOpen |-> FALSE,
                          steamInletValveOpen |-> FALSE, heaterOn |-> FALSE])
    ELSE e1

\* setPhase without the count of the pre-vacuum pulses
setPhaseNoPulseCount(e, phase, totalSec) ==
  [e EXCEPT !.state.cycle.currentPhase = phase,
            !.state.cycle.phaseElapsedSec = 0,
            !.state.cycle.phaseTotalSec =
               IF totalSec # 0 THEN totalSec ELSE PHASE_DEFAULTS[phase]]

\* totalSec || PHASE_DEFAULTS[phase] || 0
setPhase(e, phase, totalSec) ==
  [e EXCEPT !.state.cycle.currentPhase = phase,
            !.state.cycle.phaseElapsedSec = 0,
            !.state.cycle.phaseTotalSec =
               IF totalSec # 0 THEN totalSec ELSE PHASE_DEFAULTS[phase],
            !.completedPrevacuums = IF phase = "PREVACUUM" THEN @ + 1 ELSE @]

\* program.dryingTimeSec || 30
DryingBudget(program) ==
  IF program.dryingTimeSec # 0 THEN program.dryingTimeSec ELSE 30

\* 3. the state machine of the cycle
tickPhase(e, dtSec) ==
  IF ~(e.state.cycle.active /\ e.currentProgram # Null) THEN e
  ELSE
    LET program == e.currentProgram
        phase == e.state.cycle.currentPhase
        elapsed == e.state.cycle.phaseElapsedSec
        total == e.state.cycle.phaseTotalSec
        chamber == e.state.chamber
        generator == e.state.generator
    IN
    CASE phase = "PREHEAT" ->
           LET e1 == writeActuators(e,
                       [heaterOn |-> TRUE, steamInletValveOpen |-> FALSE,
                        vacuumPumpOn |-> FALSE, steamExhaustValveOpen |-> FALSE])
           IN IF \/ generator.temperatureC >= Max(100, program.setTempC - 5)
                 \/ elapsed > PHASE_DEFAULTS.PREHEAT
                THEN setPhase([e1 EXCEPT !.completedPrevacuums = 0],
                              "PREVACUUM", PHASE_DEFAULTS.PREVACUUM)
                ELSE e1
      [] phase = "PREVACUUM" ->
           LET e1 == writeActuators(e,
                       [vacuumPumpOn |-> TRUE, steamExhaustValveOpen |-> TRUE,
                        steamInletValveOpen |-> FALSE, heaterOn |-> FALSE])
           IN IF elapsed > total
                THEN IF e1.completedPrevacuums >= program.preVacuumCount
                       THEN setPhase(e1, "HEAT_UP", PHASE_DEFAULTS.HEAT_UP)
                       ELSE setPhase(e1, "PREVACUUM", PHASE_DEFAULTS.PREVACUUM)
                ELSE e1
      [] phase = "HEAT_UP" ->
           LET e1 == writeActuators(e,
                       [steamInletValveOpen |-> TRUE, heaterOn |-> TRUE,
                        vacuumPumpOn |-> FALSE, steamExhaustValveOpen |-> FALSE])
               reachedTemp == chamber.temperatureC >= program.setTempC - 2
           IN IF reachedTemp \/ elapsed > total
                THEN setPhase(e1, "STERILIZATION", program.sterilizationTimeSec)
                ELSE e1
      [] phase = "STERILIZATION" ->
           LET e1 == writeActuators(e,
                       [steamInletValveOpen |->
                          (chamber.temperatureC < program.setTempC),
                        heaterOn |-> TRUE, vacuumPumpOn |-> FALSE,
                        steamExhaustValveOpen |-> FALSE])
               e2 == [e1 EXCEPT !.sterilizationTempLowSec =
                        IF chamber.temperatureC < program.setTempC - 3
                          THEN @ + dtSec ELSE 0]
           IN IF elapsed >= program.sterilizationTimeSec
                THEN [setPhase(e2, "DRYING", DryingBudget(program))
                        EXCEPT !.sterilizationTempLowSec = 0]
                ELSE e2
      [] phase = "DRYING" ->
           LET e1 == writeActuators(e,
                       [vacuumPumpOn |-> TRUE, steamExhaustValveOpen |-> TRUE,
                        heaterOn |-> FALSE, steamInletValveOpen |-> FALSE])
           IN IF elapsed >= DryingBudget(program)
                THEN setPhase(e1, "DEPRESSURIZE", PHASE_DEFAULTS.DEPRESSURIZE)
                ELSE e1
      [] phase = "DEPRESSURIZE" ->
           LET e1 == writeActuators(e,
                       [steamExhaustValveOpen |-> TRUE, vacuumPumpOn |-> FALSE,
                        steamInletValveOpen |-> FALSE, heaterOn |-> FALSE])
           IN IF chamber.pressureMPa <= 20 \/ elapsed > 20
                THEN setPhase(e1, "COOLING", 20)
                ELSE e1
      [] phase = "COOLING" ->
           LET e1 == writeActuators(e,
                       [heaterOn |-> FALSE, steamInletValveOpen |-> FALSE,
                        steamExhaustValveOpen |-> FALSE, vacuumPumpOn |-> FALSE])
           IN IF chamber.temperatureC <= 60 \/ elapsed > 40
                THEN recordCycle(
                       [setPhase(e1, "COMPLETE", 0)
                          EXCEPT !.state.cycle.active = FALSE],
                       "success", "none")
                ELSE e1
      [] OTHER -> e

alarmOverpressure(e) ==
  IF e.state.chamber.pressureMPa > 350
    THEN pushError(e, "OVERPRESSURE", "chamber overpressure")
    ELSE e

alarmNoWater(e) ==
  IF e.state.generator.waterLevelPercent < 5
    THEN pushError(e, "NO_WATER", "not enough water in the generator")
    ELSE e

alarmOvertemp(e) ==
  IF e.state.chamber.temperatureC > e.currentProgram.setTempC + 8
    THEN pushError(e, "OVERTEMP", "chamber overtemperature")
    ELSE e

alarmHeatUpTimeout(e) ==
  IF /\ e.state.cycle.currentPhase = "HEAT_UP"
     /\ e.state.cycle.phaseElapsedSec > e.state.cycle.phaseTotalSec + 30
     /\ e.state.chamber.temperatureC < e.currentProgram.setTempC - 5
    THEN pushError(e, "HEATING_TIMEOUT", "sterilization temperature not reached")
    ELSE e

alarmVacuumFail(e) ==
  IF /\ e.state.cycle.currentPhase = "PREVACUUM"
     /\ e.state.cycle.phaseElapsedSec > e.state.cycle.phaseTotalSec + 5
     /\ e.state.chamber.pressureMPa > 50
    THEN pushError(e, "VACUUM_FAIL", "vacuum not reached")
    ELSE e

alarmDryingTimeout(e) ==
  IF /\ e.state.cycle.currentPhase = "DRYING"
     /\ e.state.cycle.phaseElapsedSec > e.state.cycle.phaseTotalSec + 60
    THEN pushError(e, "HEATING_TIMEOUT", "drying took too long")
    ELSE e

\* the check of the hold with a limit of 60 s
alarmHoldTempLowLate(e) ==
  IF /\ e.state.cycle.currentPhase = "STERILIZATION"
     /\ e.sterilizationTempLowSec > 60
    THEN pushError(e, "HEATING_TIMEOUT", "sterilization temperature stays low")
    ELSE e

alarmHoldTempLow(e) ==
  IF /\ e.state.cycle.currentPhase = "STERILIZATION"
     /\ e.sterilizationTempLowSec > 30
    THEN pushError(e, "HEATING_TIMEOUT", "sterilization temperature stays low")
    ELSE e

\* if (currentProgram) { ... }: the alarms that need a program, in order
programAlarms(e) ==
  IF e.currentProgram = Null THEN e
  ELSE alarmHoldTempLow(alarmDryingTimeout(alarmVacuumFail(
         alarmHeatUpTimeout(alarmOvertemp(e)))))

alarmDoorOpen(e) ==
  IF e.state.cycle.active /\ e.state.door.open
    THEN pushError(e, "DOOR_OPEN", "door open during the cycle")
    ELSE e

\* the alarm checks with the water level checked before the pressure
tickAlarmsWaterFirst(e) ==
  IF e.state.cycle.currentPhase = "ERROR" THEN e
  ELSE alarmDoorOpen(programAlarms(alarmOverpressure(alarmNoWater(e))))

\* 4. the alarm checks
tickAlarms(e) ==
  IF e.state.cycle.currentPhase = "ERROR" THEN e
  ELSE alarmDoorOpen(programAlarms(alarmNoWater(alarmOverpressure(e))))

\* 1. and 2. of tick: what runs before the state machine of the cycle
tickBeforePhase(e, dtMs) ==
  tickVacuumTest(
    tickTimers(validateSensors(syncSensors(e)), dtMs \div 1000),
    dtMs \div 1000)

\* tick with the alarm checks ahead of the state machine
tickAlarmsFirst(e, dtMs) ==
  tickPhase(
    tickAlarms(
      tickVacuumTest(
        tickTimers(validateSensors(syncSensors(e)), dtMs \div 1000),
        dtMs \div 1000)),
    dtMs \div 1000)

tick(e, dtMs) ==
  tickAlarms(
    tickPhase(
      tickVacuumTest(
        tickTimers(validateSensors(syncSensors(e)), dtMs \div 1000),
        dtMs \div 1000),
      dtMs \div 1000))

\* tick, each of its parts applied to the value that the part before it
\* returned
programAlarmsInStages(e) ==
  IF e.currentProgram = Null THEN e
  ELSE CHOOSE t \in
         {alarmHoldTempLow(e4) : e4 \in
           {alarmDryingTimeout(e3) : e3 \in
             {alarmVacuumFail(e2) : e2 \in
               {alarmHeatUpTimeout(e1) : e1 \in {alarmOvertemp(e)}}}}} : TRUE

tickAlarmsInStages(e) ==
  IF e.state.cycle.currentPhase = "ERROR" THEN e
  ELSE CHOOSE t \in
         {alarmDoorOpen(e3) : e3 \in
           {programAlarmsInStages(e2) : e2 \in
             {alarmNoWater(e1) : e1 \in {alarmOverpressure(e)}}}} : TRUE

tickInStages(e, dtMs) ==
  CHOOSE t \in
    {tickAlarmsInStages(e5) : e5 \in
      {tickPhase(e4, dtMs \div 1000) : e4 \in
        {tickVacuumTest(e3, dtMs \div 1000) : e3 \in
          {tickTimers(e2, dtMs \div 1000) : e2 \in
            {validateSensors(e1) : e1 \in {syncSensors(e)}}}}}} : TRUE

----------------------------------------------------------------------------
(* tick as the async function it is.  Between the call and the return the  *)
(* function is suspended at its awaits; the segments below are what runs   *)
(* between three of them: the await of io.readSensors() in syncSensors,    *)
(* the await of io.writeActuators(..) that opens each case of the state    *)
(* machine, and the await of setPhase(..).                                 *)

\* syncSensors resumed with the sensors that readSensors returned at the call
syncSensorsFrom(e, sensors) ==
  [syncSensors([e EXCEPT !.physical = sensors]) EXCEPT !.physical = e.physical]

\* the await io.writeActuators(..) that opens the case of the phase
tickPhaseWrite(e, phase, program) ==
  CASE phase = "PREHEAT" ->
         writeActuators(e,
           [heaterOn |-> TRUE, steamInletValveOpen |-> FALSE,
            vacuumPumpOn |-> FALSE, steamExhaustValveOpen |-> FALSE])
    [] phase = "PREVACUUM" ->
         writeActuators(e,
           [vacuumPumpOn |-> TRUE, steamExhaustValveOpen |-> TRUE,
            steamInletValveOpen |-> FALSE, heaterOn |-> FALSE])
    [] phase = "HEAT_UP" ->
         writeActuators(e,
           [steamInletValveOpen |-> TRUE, heaterOn |-> TRUE,
            vacuumPumpOn |-> FALSE, steamExhaustValveOpen |-> FALSE])
    [] phase = "STERILIZATION" ->
         writeActuators(e,
           [steamInletValveOpen |->
              (e.state.chamber.temperatureC < program.setTempC),
            heaterOn |-> TRUE, vacuumPumpOn |-> FALSE,
            steamExhaustValveOpen |-> FALSE])
    [] phase = "DRYING" ->
         writeActuators(e,
           [vacuumPumpOn |-> TRUE, steamExhaustValveOpen |-> TRUE,
            heaterOn |-> FALSE, steamInletValveOpen |-> FALSE])
    [] phase = "DEPRESSURIZE" ->
         writeActuators(e,
           [steamExhaustValveOpen |-> TRUE, vacuumPumpOn |-> FALSE,
            steamInletValveOpen |-> FALSE, heaterOn |-> FALSE])
    [] phase = "COOLING" ->
         writeActuators(e,
           [heaterOn |-> FALSE, steamInletValveOpen |-> FALSE,
            steamExhaustValveOpen |-> FALSE, vacuumPumpOn |-> FALSE])
    [] OTHER -> e

\* the condition under which the case of the phase calls setPhase
tickPhaseTransits(e, phase, program) ==
  CASE phase = "PREHEAT" ->
         \/ e.state.generator.temperatureC >= Max(100, program.setTempC - 5)
         \/ e.state.cycle.phaseElapsedSec > PHASE_DEFAULTS.PREHEAT
    [] phase = "PREVACUUM" ->
         e.state.cycle.phaseElapsedSec > e.state.cycle.phaseTotalSec
    [] phase = "HEAT_UP" ->
         \/ e.state.chamber.temperatureC >= program.setTempC - 2
         \/ e.state.cycle.phaseElapsedSec > e.state.cycle.phaseTotalSec
    [] phase = "STERILIZATION" ->
         e.state.cycle.phaseElapsedSec >= program.sterilizationTimeSec
    [] phase = "DRYING" ->
         e.state.cycle.phaseElapsedSec >= DryingBudget(program)
    [] phase = "DEPRESSURIZE" ->
         e.state.chamber.pressureMPa <= 20 \/ e.state.cycle.phaseElapsedSec > 20
    [] phase = "COOLING" ->
         e.state.chamber.temperatureC <= 60 \/ e.state.cycle.phaseElapsedSec > 40
    [] OTHER -> FALSE

\* the phase and the budget that the case of the phase passes to setPhase
tickPhaseTarget(e, phase, program) ==
  CASE phase = "PREHEAT" -> <<"PREVACUUM", PHASE_DEFAULTS.PREVACUUM>>
    [] phase = "PREVACUUM" ->
         IF e.completedPrevacuums >= program.preVacuumCount
           THEN <<"HEAT_UP", PHASE_DEFAULTS.HEAT_UP>>
           ELSE <<"PREVACUUM", PHASE_DEFAULTS.PREVACUUM>>
    [] phase = "HEAT_UP" -> <<"STERILIZATION", program.sterilizationTimeSec>>
    [] phase = "STERILIZATION" -> <<"DRYING", DryingBudget(program)>>
    [] phase = "DRYING" -> <<"DEPRESSURIZE", PHASE_DEFAULTS.DEPRESSURIZE>>
    [] phase = "DEPRESSURIZE" -> <<"COOLING", 20>>
    [] phase = "COOLING" -> <<"COMPLETE", 0>>

\* what the case of the phase runs before its condition
tickPhaseBody(e, phase, program, dtSec) ==
  IF phase = "STERILIZATION"
    THEN [e EXCEPT !.sterilizationTempLowSec =
            IF e.state.chamber.temperatureC < program.setTempC - 3
              THEN @ + dtSec ELSE 0]
    ELSE e

\* the case of the phase from the return of writeActuators to the await of
\* setPhase, whose assignments are made when it is called
tickPhaseEnter(e, phase, program) ==
  setPhase(IF phase = "PREHEAT" THEN [e EXCEPT !.completedPrevacuums = 0]
                                ELSE e,
           tickPhaseTarget(e, phase, program)[1],
           tickPhaseTarget(e, phase, program)[2])

\* the case of the phase after the return of setPhase
tickPhaseAfterSetPhase(e, phase) ==
  CASE phase = "STERILIZATION" -> [e EXCEPT !.sterilizationTempLowSec = 0]
    [] phase = "COOLING" ->
         recordCycle([e EXCEPT !.state.cycle.active = FALSE], "success", "none")
    [] OTHER -> e

\* the case of the phase, its segments run one after the other
tickPhaseSegments(b, phase, program, dtSec) ==
  IF tickPhaseTransits(b, phase, program)
    THEN tickPhaseAfterSetPhase(
           tickPhaseEnter(
             tickPhaseBody(tickPhaseWrite(b, phase, program),
                           phase, program, dtSec),
             phase, program),
           phase)
    ELSE tickPhaseBody(tickPhaseWrite(b, phase, program), phase, program, dtSec)

\* the segments of tick run one after the other, nothing in between
tickInSegments(e, dtMs) ==
  tickAlarms(
    IF /\ tickBeforePhase(e, dtMs).state.cycle.active
       /\ tickBeforePhase(e, dtMs).currentProgram # Null
       /\ tickBeforePhase(e, dtMs).state.cycle.currentPhase \in RunningPhases
      THEN tickPhaseSegments(tickBeforePhase(e, dtMs),
                             tickBeforePhase(e, dtMs).state.cycle.currentPhase,
                             tickBeforePhase(e, dtMs).currentProgram,
                             dtMs \div 1000)
      ELSE tickBeforePhase(e, dtMs))

----------------------------------------------------------------------------
(* Commands.                                                               *)

\* base ? { ...base, ...override } : null
ResolveProgram(e, programId) ==
  LET base == FindProgram(programId)
      override == IF programId \in DOMAIN e.state.programOverrides
                    THEN e.state.programOverrides[programId]
                    ELSE EmptyObject
  IN IF base # Null THEN Spread(base, override) ELSE Null

\* startCycle that does not reset the pulse counter
startCycleKeepsPulseCount(e, programId) ==
  LET program == ResolveProgram(e, programId)
  IN
  IF program = Null THEN [threw |-> TRUE, e |-> e]
  ELSE IF ~e.state.door.locked \/ e.state.door.open THEN
    [threw |-> FALSE,
     e |-> pushError(e, "DOOR_OPEN", "door open or not locked")]
  ELSE
    [threw |-> FALSE,
     e |-> [e EXCEPT
             !.currentProgram = program,
             !.state.errors = <<>>,
             !.state.powerFailure = [pending |-> FALSE],
             !.state.cycle =
                [active |-> TRUE, currentPhase |-> "PREHEAT",
                 phaseElapsedSec |-> 0, phaseTotalSec |-> 0,
                 totalElapsedSecSec |-> 0, currentProgram |-> program]]]

\* The result is [threw, e]: threw is the "Program not found" exception.
\* startCycle that leaves a pending power failure pending
startCycleKeepsPowerFailure(e, programId) ==
  LET program == ResolveProgram(e, programId)
  IN
  IF program = Null THEN [threw |-> TRUE, e |-> e]
  ELSE IF ~e.state.door.locked \/ e.state.door.open THEN
    [threw |-> FALSE,
     e |-> pushError(e, "DOOR_OPEN", "door open or not locked")]
  ELSE
    [threw |-> FALSE,
     e |-> [e EXCEPT
             !.currentProgram = program,
             !.completedPrevacuums = 0,
             !.state.errors = <<>>,
             !.state.cycle =
                [active |-> TRUE, currentPhase |-> "PREHEAT",
                 phaseElapsedSec |-> 0, phaseTotalSec |-> 0,
                 totalElapsedSecSec |-> 0, currentProgram |-> program]]]

startCycle(e, programId) ==
  LET program == ResolveProgram(e, programId)
  IN
  IF program = Null THEN [threw |-> TRUE, e |-> e]
  ELSE IF ~e.state.door.locked \/ e.state.door.open THEN
    [threw |-> FALSE,
     e |-> pushError(e, "DOOR_OPEN", "door open or not locked")]
  ELSE
    [threw |-> FALSE,
     e |-> [e EXCEPT
             !.currentProgram = program,
             !.completedPrevacuums = 0,
             !.state.errors = <<>>,
             !.state.powerFailure = [pending |-> FALSE],
             !.state.cycle =
                [active |-> TRUE, currentPhase |-> "PREHEAT",
                 phaseElapsedSec |-> 0, phaseTotalSec |-> 0,
                 totalElapsedSecSec |-> 0, currentProgram |-> program]]]

\* stopCycle without the summary
stopCycleNoRecord(e) ==
  [e EXCEPT !.state.cycle.active = FALSE,
            !.state.cycle.currentPhase = "DEPRESSURIZE",
            !.state.cycle.phaseElapsedSec = 0]

stopCycle(e) ==
  recordCycle([e EXCEPT !.state.cycle.active = FALSE,
                        !.state.cycle.currentPhase = "DEPRESSURIZE",
                        !.state.cycle.phaseElapsedSec = 0],
              "aborted", "USER_STOP")

\* openDoor over a port whose unlocked door swings open
openDoorOpens(e) ==
  [e EXCEPT !.physical.doorLocked = FALSE, !.physical.doorOpen = TRUE]

openDoor(e) == writeActuators(e, [doorLockOn |-> FALSE])

closeDoor(e) == writeActuators(e, [doorLockOn |-> TRUE])

\* startVacuumTest without the check of the cycle
startVacuumTestUnguarded(e, config) ==
  writeActuators(
    [e EXCEPT !.state.vacuumTest =
       [active |-> TRUE, phase |-> "STABILIZE", elapsedSec |-> 0,
        stabilizationTimeSec |-> config.stabilizationTimeSec,
        testTimeSec |-> config.testTimeSec,
        basePressureMPa |-> <<>>, result |-> "none",
        leakRateMPaPerMin |-> <<>>]],
    [vacuumPumpOn |-> TRUE, steamExhaustValveOpen |-> TRUE,
     steamInletValveOpen |-> FALSE, heaterOn |-> FALSE])

startVacuumTest(e, config) ==
  IF e.state.cycle.active THEN e
  ELSE
    writeActuators(
      [e EXCEPT !.state.vacuumTest =
         [active |-> TRUE, phase |-> "STABILIZE", elapsedSec |-> 0,
          stabilizationTimeSec |-> config.stabilizationTimeSec,
          testTimeSec |-> config.testTimeSec,
          basePressureMPa |-> <<>>, result |-> "none",
          leakRateMPaPerMin |-> <<>>]],
      [vacuumPumpOn |-> TRUE, steamExhaustValveOpen |-> TRUE,
       steamInletValveOpen |-> FALSE, heaterOn |-> FALSE])

\* setProgramOverride that forgets the override stored before
setProgramOverrideReplaces(e, programId, override) ==
  [e EXCEPT !.state.programOverrides =
     [k \in (DOMAIN @) \cup {programId} |->
        IF k = programId THEN override ELSE @[k]]]

setProgramOverride(e, programId, override) ==
  LET old == IF programId \in DOMAIN e.state.programOverrides
               THEN e.state.programOverrides[programId]
               ELSE EmptyObject
  IN [e EXCEPT !.state.programOverrides =
        [k \in (DOMAIN @) \cup {programId} |->
           IF k = programId THEN Spread(old, override) ELSE @[k]]]

setCalibrationOffsets(e, offsets) ==
  [e EXCEPT !.state.calibrationOffsets = Spread(@, offsets)]

resetCalibrationOffsets(e) ==
  [e EXCEPT !.state.calibrationOffsets =
     [chamberTempOffsetC |-> 0, chamberPressureOffset |-> 0,
      generatorTempOffsetC |-> 0, generatorPressureOffset |-> 0]]

\* powerFail without the check of the cycle
powerFailAlways(e, message) ==
  [e EXCEPT !.pausedCycle = e.state.cycle,
            !.state.cycle.active = FALSE,
            !.state.powerFailure = [pending |-> TRUE, message |-> message]]

powerFail(e, message) ==
  IF ~e.state.cycle.active THEN e
  ELSE [e EXCEPT !.pausedCycle = e.state.cycle,
                 !.state.cycle.active = FALSE,
                 !.state.powerFailure = [pending |-> TRUE, message |-> message]]

\* continueAfterPower that reactivates the cycle as it is now
continueAfterPowerAsIs(e) ==
  IF ~e.state.powerFailure.pending \/ e.pausedCycle = Null THEN e
  ELSE [e EXCEPT !.state.cycle.active = TRUE,
                 !.state.powerFailure = [pending |-> FALSE],
                 !.pausedCycle = Null]

continueAfterPower(e) ==
  IF ~e.state.powerFailure.pending \/ e.pausedCycle = Null THEN e
  ELSE [e EXCEPT !.state.cycle = [e.pausedCycle EXCEPT !.active = TRUE],
                 !.state.powerFailure = [pending |-> FALSE],
                 !.pausedCycle = Null]

\* abortAfterPower without the summary
abortAfterPowerNoRecord(e) ==
  IF ~e.state.powerFailure.pending THEN e
  ELSE [e EXCEPT !.state.powerFailure = [pending |-> FALSE],
                 !.pausedCycle = Null,
                 !.state.cycle.active = FALSE,
                 !.state.cycle.currentPhase = "IDLE",
                 !.state.cycle.currentProgram = Null]

abortAfterPower(e) ==
  IF ~e.state.powerFailure.pending THEN e
  ELSE
    LET e1 == recordCycle([e EXCEPT !.state.powerFailure = [pending |-> FALSE],
                                    !.pausedCycle = Null],
                          "aborted", "POWER_ERROR")
    IN [e1 EXCEPT !.state.cycle.active = FALSE,
                  !.state.cycle.currentPhase = "IDLE",
                  !.state.cycle.currentProgram = Null]

\* resetErrors that returns to IDLE from any phase
resetErrorsAlwaysIdle(e) ==
  [e EXCEPT !.state.errors = <<>>,
            !.state.cycle.currentPhase = "IDLE",
            !.state.cycle.active = FALSE]

resetErrors(e) ==
  LET e1 == [e EXCEPT !.state.errors = <<>>]
  IN IF e1.state.cycle.currentPhase = "ERROR"
       THEN [e1 EXCEPT !.state.cycle.currentPhase = "IDLE",
                       !.state.cycle.active = FALSE]
       ELSE e1

----------------------------------------------------------------------------
(* The environment of the engine.                                          *)

\* SimulationIO.stepPhysics, abstracted: the analog readings move to any of
\* Readings (the door and actuator flags are not touched by stepPhysics).
stepPhysics(e, r) == [e EXCEPT !.physical = Spread(@, r)]

\* Runs stop raising alarms once state.errors holds MaxActiveErrors events.
WithinBounds(e) == Len(e.state.errors) <= MaxActiveErrors

----------------------------------------------------------------------------
(* Actions.                                                                *)

Init ==
  /\ state = InitialState
  /\ currentProgram = Null
  /\ completedPrevacuums = 0
  /\ sterilizationTempLowSec = 0
  /\ currentVacuumStartPressure = 0
  /\ pausedCycle = Null
  /\ inFlight = Null
  /\ \E doorOpen \in BOOLEAN, doorLocked \in BOOLEAN :
        physical = InitialPhysical(doorOpen, doorLocked)

\* One turn of the driver's loop: stepPhysics(dt), then tick(dt * 1000).
Step(e, r, dtMs) == tick(stepPhysics(e, r), dtMs)

TickOf(readings) ==
  \E dtMs \in DtChoices, r \in readings :
    LET e == Step(Cur, r, dtMs)
    IN WithinBounds(e) /\ Commit(e)

Tick == TickOf(Readings)

TickCore == TickOf(CoreReadings)

TickNominal == TickOf(NominalReadings)

TickHot == TickOf({HotReading})

\* A call that throws leaves the engine as it was.
StartCycleOf(programIds) ==
  \E programId \in programIds :
    LET r == startCycle(Cur, programId)
    IN WithinBounds(r.e) /\ Commit(r.e)

StartCycle == StartCycleOf(ProgramIds \cup {UnknownProgramId})

StartCycleOne == StartCycleOf({"prog_121"})

StopCycle == Commit(stopCycle(Cur))

OpenDoor == Commit(openDoor(Cur))

CloseDoor == Commit(closeDoor(Cur))

StartVacuumTest ==
  \E config \in VacuumTestConfigs : Commit(startVacuumTest(Cur, config))

SetProgramOverride ==
  \E programId \in OverrideIds, override \in OverrideInputs :
    Commit(setProgramOverride(Cur, programId, override))

SetCalibrationOffsets ==
  \E offsets \in CalibrationInputs : Commit(setCalibrationOffsets(Cur, offsets))

ResetCalibrationOffsets == Commit(resetCalibrationOffsets(Cur))

PowerFail == Commit(powerFail(Cur, "grid outage"))

ContinueAfterPower == Commit(continueAfterPower(Cur))

AbortAfterPower == Commit(abortAfterPower(Cur))

ResetErrors == Commit(resetErrors(Cur))

\* A port whose door sensor starts to report the door open (readSensors may
\* return any doorOpen); no command of the engine does this.
PortDoorOpened ==
  /\ ~physical.doorOpen
  /\ physical' = [physical EXCEPT !.doorOpen = TRUE, !.doorLocked = FALSE]
  /\ UNCHANGED <<state, currentProgram, completedPrevacuums,
                 sterilizationTempLowSec, currentVacuumStartPressure,
                 pausedCycle, inFlight>>

\* One turn of the driver's loop, tick run part by part.
Turn ==
  \E dtMs \in DtChoices, r \in Readings :
    \E e \in {tickInStages(p, dtMs) : p \in {stepPhysics(Cur, r)}} :
      WithinBounds(e) /\ Commit(e)

\* The commands of an operator who leaves a running cycle alone.
IdleStartCycle == ~state.cycle.active /\ StartCycle

IdleCloseDoor == ~state.cycle.active /\ CloseDoor

Next ==
  \/ Tick
  \/ StartCycle
  \/ CloseDoor

\* The driver's loop and an operator who closes the door and starts cycles.
Spec == Init /\ [][Next]_vars

NextOperator ==
  \/ TickCore
  \/ StartCycle
  \/ CloseDoor
  \/ StopCycle
  \/ ResetErrors

\* ... who also stops cycles and acknowledges errors.
SpecOperator == Init /\ [][NextOperator]_vars

NextDoor ==
  \/ TickCore
  \/ StartCycleOne
  \/ CloseDoor
  \/ OpenDoor
  \/ PortDoorOpened

\* ... with a door that is unlocked and opened.
SpecDoor == Init /\ [][NextDoor]_vars

NextVacuum ==
  \/ TickNominal
  \/ StartCycleOne
  \/ CloseDoor
  \/ StartVacuumTest

\* ... who also runs vacuum tests.
SpecVacuum == Init /\ [][NextVacuum]_vars

\* tick is called: io.readSensors() returns the sensors of this moment.
TickCall ==
  /\ inFlight = Null
  /\ \E dtMs \in DtChoices, r \in NominalReadings :
       /\ CommitEngine(stepPhysics(Cur, r))
       /\ inFlight' = [at |-> "readSensors", dtMs |-> dtMs,
                       sensors |-> stepPhysics(Cur, r).physical,
                       phase |-> "IDLE", program |-> Null]

\* b is the engine at "const program = currentProgram": the state machine
\* writes the actuators of its case and tick is suspended, or there is no
\* case to run and tick ends with its alarms.
AfterRead(b) ==
  IF /\ b.state.cycle.active
     /\ b.currentProgram # Null
     /\ b.state.cycle.currentPhase \in RunningPhases
    THEN /\ CommitEngine(tickPhaseWrite(b, b.state.cycle.currentPhase,
                                        b.currentProgram))
         /\ inFlight' = [inFlight EXCEPT !.at = "writeActuators",
                                         !.phase = b.state.cycle.currentPhase,
                                         !.program = b.currentProgram]
    ELSE /\ WithinBounds(tickAlarms(b))
         /\ CommitEngine(tickAlarms(b))
         /\ inFlight' = Null

\* readSensors has returned: sensors are mirrored and validated, the timers
\* and the vacuum test run.
TickAfterRead ==
  /\ inFlight # Null
  /\ inFlight.at = "readSensors"
  /\ AfterRead(
       tickVacuumTest(
         tickTimers(
           validateSensors(syncSensorsFrom(Cur, inFlight.sensors)),
           inFlight.dtMs \div 1000),
         inFlight.dtMs \div 1000))

\* e is the engine in the case of the phase, before its condition: setPhase
\* is called and tick is suspended, or tick ends with its alarms.
AfterWrite(e, phase, program) ==
  IF tickPhaseTransits(e, phase, program)
    THEN /\ CommitEngine(tickPhaseEnter(e, phase, program))
         /\ inFlight' = [inFlight EXCEPT !.at = "setPhase"]
    ELSE /\ WithinBounds(tickAlarms(e))
         /\ CommitEngine(tickAlarms(e))
         /\ inFlight' = Null

\* writeActuators has returned
TickAfterWrite ==
  /\ inFlight # Null
  /\ inFlight.at = "writeActuators"
  /\ AfterWrite(tickPhaseBody(Cur, inFlight.phase, inFlight.program,
                              inFlight.dtMs \div 1000),
                inFlight.phase, inFlight.program)

\* setPhase has returned: the rest of the case, then the alarms
TickAfterSetPhase ==
  /\ inFlight # Null
  /\ inFlight.at = "setPhase"
  /\ WithinBounds(tickAlarms(tickPhaseAfterSetPhase(Cur, inFlight.phase)))
  /\ CommitEngine(tickAlarms(tickPhaseAfterSetPhase(Cur, inFlight.phase)))
  /\ inFlight' = Null

TickLeak == TickOf(LeakReadings)

StartLeakTest ==
  \E config \in LeakTestConfigs : Commit(startVacuumTest(Cur, config))

NextLeak ==
  \/ TickLeak
  \/ StartLeakTest

\* ... running leak tests of several durations on a nearly tight chamber.
SpecLeak == Init /\ [][NextLeak]_vars

NextCalibration ==
  \/ TickNominal
  \/ StartCycleOne
  \/ CloseDoor
  \/ SetCalibrationOffsets
  \/ ResetCalibrationOffsets

\* ... by a technician who calibrates the sensors between and during cycles.
SpecCalibration == Init /\ [][NextCalibration]_vars

StartCycleOverridden == StartCycleOf(OverrideIds)

NextOverride ==
  \/ TickNominal
  \/ StartCycleOverridden
  \/ CloseDoor
  \/ SetProgramOverride

\* ... by a technician who edits the parameters of a program.
SpecOverride == Init /\ [][NextOverride]_vars

NextPower ==
  \/ TickCore
  \/ StartCycleOne
  \/ CloseDoor
  \/ PowerFail
  \/ ContinueAfterPower
  \/ AbortAfterPower

\* ... with power failures, which the operator continues or aborts.
SpecPower == Init /\ [][NextPower]_vars

NextAsync ==
  \/ TickCall
  \/ TickAfterRead
  \/ TickAfterWrite
  \/ TickAfterSetPhase
  \/ StartCycleOne
  \/ CloseDoor
  \/ StopCycle

\* ... with a port whose promises resolve late enough for a command to run
\* while tick is suspended at an await.
SpecAsync == Init /\ [][NextAsync]_vars

NextLock ==
  \/ TickCore
  \/ StartCycleOne
  \/ CloseDoor
  \/ OpenDoor

\* ... over the simulation backend, whose door only the commands move, with
\* an operator who locks and unlocks it at any time.
SpecLock == Init /\ [][NextLock]_vars

NextRecovery ==
  \/ TickHot
  \/ StartCycle
  \/ CloseDoor
  \/ StopCycle
  \/ ResetErrors
  \/ PowerFail
  \/ ContinueAfterPower
  \/ AbortAfterPower

\* ... with every command of the cycle and of the power failure, in any
\* order, for both programs.
SpecRecovery == Init /\ [][NextRecovery]_vars

NextUnattended ==
  \/ Turn
  \/ IdleStartCycle
  \/ IdleCloseDoor

\* ... with no command issued while a cycle runs, and a driver whose timer
\* keeps firing: the loop of the driver calls tick at every turn.
SpecUnattended == Init /\ [][NextUnattended]_vars /\ WF_vars(Turn)

----------------------------------------------------------------------------
(* Properties.  A property of an operation is stated of the operation       *)
(* applied to the current engine value Cur, for every input.               *)

\* the engine with its two logs emptied: an operation applied to it leaves in
\* the logs what the operation added, newest first
Fresh(e) ==
  [e EXCEPT !.state.lastCompletedCycles = <<>>, !.state.errorHistory = <<>>]

HasCode(events, code) == \E i \in 1..Len(events) : events[i].code = code

DoorEvent == [code |-> "DOOR_OPEN", message |-> "door open or not locked"]

\* C1: a startCycle with a known program issued while the phase is ERROR does
\* not make the cycle active, whatever the door state.
C1_NoStartInError ==
  \A programId \in ProgramIds :
    state.cycle.currentPhase = "ERROR" =>
      ~startCycle(Cur, programId).e.state.cycle.active

\* C2: in every reachable state a cycle and a vacuum test are not both active.
C2_CycleExcludesVacuumTest ==
  ~(state.cycle.active /\ state.vacuumTest.active)

\* C3 as stated: startCycle with a known program while the mirrored door is
\* open or unlocked leaves the cycle inactive and a DOOR_OPEN event in the
\* active error list, from every reachable state.
C3_DoorOpenAlwaysReported ==
  \A programId \in ProgramIds :
    (~state.door.locked \/ state.door.open) =>
      LET e == startCycle(Cur, programId).e
      IN ~e.state.cycle.active /\ HasCode(e.state.errors, "DOOR_OPEN")

\* C3 amended: startCycle with a known program while the mirrored door is open
\* or unlocked never starts a cycle; when the phase is not ERROR it appends
\* one DOOR_OPEN event to the active list and to the history and sets the
\* phase to ERROR; when the phase is ERROR it changes nothing.
C3_DoorOpenReportedOutsideError ==
  \A programId \in ProgramIds :
    (~state.door.locked \/ state.door.open) =>
      LET r == startCycle(Cur, programId)
      IN /\ ~r.threw
         /\ ~r.e.state.cycle.active
         /\ IF state.cycle.currentPhase = "ERROR"
              THEN r.e = Cur
              ELSE /\ r.e.state.cycle.currentPhase = "ERROR"
                   /\ r.e.state.errors = Append(state.errors, DoorEvent)
                   /\ r.e.state.errorHistory =
                        Slice(<<DoorEvent>> \o state.errorHistory,
                              MaxErrorHistory)

\* a cycle that was running with the door unlocked was refused a restart
C3_Witness ==
  /\ state.cycle.currentPhase = "ERROR"
  /\ Len(state.errors) = 1
  /\ state.errors[1] = DoorEvent
  /\ Len(state.lastCompletedCycles) >= 1
  /\ state.lastCompletedCycles[1].primaryErrorCode = "DOOR_OPEN"
  /\ ~state.door.locked /\ ~state.door.open

\* C4: whenever the port reports the door closed and locked, startCycle with
\* a configured program leaves the cycle active in PREHEAT with that program,
\* also before any step has run.
C4_StartFollowsPortDoor ==
  \A programId \in ProgramIds :
    (~physical.doorOpen /\ physical.doorLocked) =>
      LET e == startCycle(Cur, programId).e
      IN /\ e.state.cycle.active
         /\ e.state.cycle.currentPhase = "PREHEAT"
         /\ e.state.cycle.currentProgram # Null
         /\ e.state.cycle.currentProgram.id = programId

\* C5: a cycle gets one summary: no transition adds two summaries, and no
\* transition from a state whose cycle has ended (not active, no power failure
\* pending) adds a summary.
C5_OneSummaryPerCycle ==
  [][ /\ \/ state'.lastCompletedCycles = state.lastCompletedCycles
         \/ /\ state'.lastCompletedCycles # <<>>
            /\ state'.lastCompletedCycles =
                 Slice(<<state'.lastCompletedCycles[1]>>
                         \o state.lastCompletedCycles, MaxCycleHistory)
      /\ (~state.cycle.active /\ ~state.powerFailure.pending) =>
            state'.lastCompletedCycles = state.lastCompletedCycles ]_vars

\* the summary recordCycle writes for the cycle of e
SummaryOf(e, result, primaryErrorCode) ==
  [programId |-> e.state.cycle.currentProgram.id,
   programName |-> e.state.cycle.currentProgram.name,
   result |-> result, success |-> (result = "success"),
   primaryErrorCode |-> primaryErrorCode]

OverpressureEvent == [code |-> "OVERPRESSURE", message |-> "chamber overpressure"]

\* C6: a step of an active cycle that observes a calibrated chamber pressure
\* above 0.35 MPa (all readings within the sensor ranges) ends in phase ERROR
\* with the cycle inactive, adds exactly one event, an OVERPRESSURE, and
\* exactly one summary, an 'error' with primary code OVERPRESSURE; in every
\* phase.
C6_OverpressureEndsCycle ==
  \A r \in Readings, dtMs \in DtChoices :
    LET seen == syncSensors(stepPhysics(Cur, r))
        e == Step(Fresh(Cur), r, dtMs)
    IN (/\ state.cycle.active
        /\ seen.state.chamber.pressureMPa > 350
        /\ ~SensorsInvalid(seen)) =>
         /\ e.state.cycle.currentPhase = "ERROR"
         /\ ~e.state.cycle.active
         /\ e.state.errors = Append(state.errors, OverpressureEvent)
         /\ e.state.errorHistory = <<OverpressureEvent>>
         /\ e.state.lastCompletedCycles =
              <<SummaryOf(Cur, "error", "OVERPRESSURE")>>

\* The place of the phase of e in the order Preheat, PreVacuum (N entries),
\* HeatUp, Sterilization, Drying, Depressurize, Cooling, Complete, for the
\* program's N = preVacuumCount; -1 outside the order.
PhasePosition(e) ==
  LET phase == e.state.cycle.currentPhase
      N == e.currentProgram.preVacuumCount
  IN CASE phase = "PREHEAT" -> 0
       [] phase = "PREVACUUM" -> e.completedPrevacuums
       [] phase = "HEAT_UP" -> N + 1
       [] phase = "STERILIZATION" -> N + 2
       [] phase = "DRYING" -> N + 3
       [] phase = "DEPRESSURIZE" -> N + 4
       [] phase = "COOLING" -> N + 5
       [] phase = "COMPLETE" -> N + 6
       [] OTHER -> -1

C8_SuccessMeansComplete ==
  \A r \in Readings, dtMs \in DtChoices :
    LET e == Step(Fresh(Cur), r, dtMs)
        added == e.state.lastCompletedCycles
    IN (\E i \in 1..Len(added) : added[i].result = "success") =>
         /\ Len(added) = 1
         /\ e.state.cycle.currentPhase = "COMPLETE"
         /\ ~e.state.cycle.active
         /\ added[1].programId = currentProgram.id
         /\ added[1].programName = currentProgram.name

\* C9: from a state in phase ERROR every step and every command other than
\* resetErrors leaves the phase ERROR.
C9_ErrorAbsorbing ==
  state.cycle.currentPhase = "ERROR" =>
    /\ \A r \in Readings, dtMs \in DtChoices :
         Step(Cur, r, dtMs).state.cycle.currentPhase = "ERROR"
    /\ \A programId \in ProgramIds \cup {UnknownProgramId} :
         startCycle(Cur, programId).e.state.cycle.currentPhase = "ERROR"
    /\ stopCycle(Cur).state.cycle.currentPhase = "ERROR"
    /\ powerFail(Cur, "grid outage").state.cycle.currentPhase = "ERROR"
    /\ continueAfterPower(Cur).state.cycle.currentPhase = "ERROR"
    /\ abortAfterPower(Cur).state.cycle.currentPhase = "ERROR"
    /\ \A config \in VacuumTestConfigs :
         startVacuumTest(Cur, config).state.cycle.currentPhase = "ERROR"
    /\ openDoor(Cur).state.cycle.currentPhase = "ERROR"
    /\ closeDoor(Cur).state.cycle.currentPhase = "ERROR"

\* C10: while the active error list holds an event (an alarm was raised and
\* neither resetErrors nor a start has cleared it), no transition adds an
\* event to the active list or to the history.
C10_NoEventsUntilReset ==
  [][ state.errors # <<>> =>
        /\ Len(state'.errors) <= Len(state.errors)
        /\ state'.errorHistory = state.errorHistory ]_vars

\* The commands other than startCycle, applied to e.
AfterCommand(e) ==
  {stopCycle(e), openDoor(e), closeDoor(e), powerFail(e, "grid outage"),
   continueAfterPower(e), abortAfterPower(e), resetErrors(e)}
    \cup {startVacuumTest(e, config) : config \in VacuumTestConfigs}

\* The steps from e.
AfterStep(e) == {Step(e, r, dtMs) : r \in Readings, dtMs \in DtChoices}

\* The steps from e in which an alarm ends the cycle that was active in e.
AfterAlarm(e) ==
  {a \in AfterStep(e) :
     e.state.cycle.active /\ a.state.cycle.currentPhase = "ERROR"}

\* C11: after stopCycle, or after a step whose alarm ended the active cycle,
\* the cycle is inactive and no step and no command other than startCycle
\* makes it active again; in particular not continueAfterPower.
C11_EndedCycleStaysInactive ==
  \A t \in {stopCycle(Cur)} \cup AfterAlarm(Cur) :
    /\ ~t.state.cycle.active
    /\ \A u \in AfterCommand(t) \cup AfterStep(t) : ~u.state.cycle.active

\* C12: powerFail of an active cycle, then zero, one or two steps with any
\* readings, then continueAfterPower: the cycle is active with the runtime
\* (phase, phase-elapsed, phase budget, total elapsed, program) it had before
\* powerFail, and no power failure is pending.
C12_PowerRoundTrip ==
  state.cycle.active =>
    LET p == powerFail(Cur, "grid outage")
    IN \A q \in {p} \cup AfterStep(p) \cup UNION {AfterStep(a) : a \in AfterStep(p)} :
         LET c == continueAfterPower(q)
         IN /\ q.state.powerFailure.pending
            /\ ~q.state.cycle.active
            /\ c.state.cycle = state.cycle
            /\ c.state.powerFailure = [pending |-> FALSE]
            /\ c.pausedCycle = Null

\* a cycle was continued after an alarm had been raised during the power
\* failure
C12_Witness ==
  /\ state.cycle.active
  /\ state.cycle.currentPhase = "HEAT_UP"
  /\ state.errors # <<>>
  /\ ~state.powerFailure.pending
  /\ pausedCycle = Null

\* C13: stopCycle during an active cycle, in any phase, leaves the cycle
\* inactive in DEPRESSURIZE with phase-elapsed 0, adds exactly one summary,
\* 'aborted' with primary code USER_STOP for the running program, and leaves
\* the active error list and the error history unchanged.
C13_StopCycleAborts ==
  state.cycle.active =>
    LET e == stopCycle(Fresh(Cur))
    IN /\ ~e.state.cycle.active
       /\ e.state.cycle.currentPhase = "DEPRESSURIZE"
       /\ e.state.cycle.phaseElapsedSec = 0
       /\ currentProgram # Null
       /\ state.cycle.currentProgram = currentProgram
       /\ e.state.lastCompletedCycles =
            <<SummaryOf(Cur, "aborted", "USER_STOP")>>
       /\ e.state.errors = state.errors
       /\ e.state.errorHistory = <<>>
       /\ stopCycle(Cur).state.errorHistory = state.errorHistory

\* a running cycle was stopped
C13_Witness ==
  /\ ~state.cycle.active
  /\ state.cycle.currentPhase = "DEPRESSURIZE"
  /\ state.cycle.phaseElapsedSec = 0
  /\ state.cycle.totalElapsedSecSec > 0
  /\ state.cycle.currentProgram # Null
  /\ Len(state.lastCompletedCycles) = 1
  /\ state.lastCompletedCycles[1].result = "aborted"
  /\ state.lastCompletedCycles[1].primaryErrorCode = "USER_STOP"
  /\ state.errors = <<>>

\* C14: startCycle with a program id that is not configured fails to the
\* caller and leaves the whole engine unchanged: the state (cycle runtime,
\* errors, histories, power-failure flag, vacuum test, overrides), the
\* per-cycle accumulators and the actuators.
C14_UnknownProgramRejected ==
  /\ FindProgram(UnknownProgramId) = Null
  /\ startCycle(Cur, UnknownProgramId) = [threw |-> TRUE, e |-> Cur]

\* a cycle is in the hold, with an earlier cycle in the history: a state in
\* which a start could change every part of the engine
C14_Witness ==
  /\ state.cycle.active
  /\ state.cycle.currentPhase = "STERILIZATION"
  /\ state.lastCompletedCycles # <<>>
  /\ state.errorHistory # <<>>
  /\ completedPrevacuums = 2

\* C15: resetErrors in a state whose active error list is empty changes
\* nothing, and resetErrors twice gives the same as resetErrors once.
C15_ResetErrorsIdempotent ==
  /\ state.errors = <<>> => resetErrors(Cur) = Cur
  /\ resetErrors(resetErrors(Cur)) = resetErrors(Cur)

\* errors were reset, and a new cycle runs with nothing to reset
C15_Witness ==
  /\ state.errors = <<>>
  /\ state.errorHistory # <<>>
  /\ state.cycle.active
  /\ state.cycle.currentPhase = "HEAT_UP"

\* The state machine of a step, from the engine b before it to the engine a
\* after it, entered PREVACUUM (setPhase restarted the phase).
EntersPreVacuum(b, a) ==
  /\ a.state.cycle.currentPhase = "PREVACUUM"
  /\ a.state.cycle # b.state.cycle

\* A step from e, with b before its state machine, a after it and s after its
\* alarms, counts the pulses: one more on an entry into PREVACUUM, else the
\* same, and PREVACUUM is left for HEAT_UP only when the count has reached
\* preVacuumCount of the running program.
CountsPulses(e, b, a, s) ==
  /\ b.completedPrevacuums = e.completedPrevacuums
  /\ a.completedPrevacuums =
       b.completedPrevacuums + (IF EntersPreVacuum(b, a) THEN 1 ELSE 0)
  /\ s.completedPrevacuums = a.completedPrevacuums
  /\ (b.state.cycle.currentPhase = "PREVACUUM"
        /\ a.state.cycle.currentPhase = "HEAT_UP")
       => b.completedPrevacuums >= b.currentProgram.preVacuumCount

\* C16: the pulse counter is 0 after a successful startCycle, a step adds
\* exactly 1 to it when its state machine enters PREVACUUM (first entry or
\* re-entry) and leaves it unchanged otherwise, no other command changes it,
\* powerFail .. continueAfterPower with steps in between gives it back
\* unchanged, and PREVACUUM -> HEAT_UP is taken only with the counter at or
\* above preVacuumCount.
C16_PulseCounter ==
  /\ \A programId \in ProgramIds :
       (state.door.locked /\ ~state.door.open)
          => startCycle(Cur, programId).e.completedPrevacuums = 0
  /\ \A u \in AfterCommand(Cur) : u.completedPrevacuums = completedPrevacuums
  /\ \A r \in Readings, dtMs \in DtChoices :
       CountsPulses(Cur,
                    tickBeforePhase(stepPhysics(Cur, r), dtMs),
                    tickPhase(tickBeforePhase(stepPhysics(Cur, r), dtMs),
                              dtMs \div 1000),
                    Step(Cur, r, dtMs))
  /\ state.cycle.active =>
       \A q \in AfterStep(powerFail(Cur, "grid outage")) :
         /\ continueAfterPower(q).completedPrevacuums = completedPrevacuums
         /\ continueAfterPower(q).state.cycle.active

\* the second pulse of a program with two pulses
C16_Witness ==
  /\ state.cycle.active
  /\ state.cycle.currentPhase = "PREVACUUM"
  /\ currentProgram # Null
  /\ currentProgram.preVacuumCount = 2
  /\ completedPrevacuums = 2

\* C17: abortAfterPower while a power failure is pending adds exactly one
\* summary, 'aborted' with primary code POWER_ERROR for the program of the
\* paused cycle, leaves no failure pending, the cycle inactive in IDLE and
\* the paused runtime discarded, and continueAfterPower after it changes
\* nothing.
C17_AbortAfterPower ==
  state.powerFailure.pending =>
    /\ pausedCycle # Null
    /\ pausedCycle.currentProgram # Null
    /\ abortAfterPower(Fresh(Cur)).state.lastCompletedCycles =
         <<[programId |-> pausedCycle.currentProgram.id,
            programName |-> pausedCycle.currentProgram.name,
            result |-> "aborted", success |-> FALSE,
            primaryErrorCode |-> "POWER_ERROR"]>>
    /\ abortAfterPower(Cur).state.powerFailure = [pending |-> FALSE]
    /\ ~abortAfterPower(Cur).state.cycle.active
    /\ abortAfterPower(Cur).state.cycle.currentPhase = "IDLE"
    /\ abortAfterPower(Cur).pausedCycle = Null
    /\ abortAfterPower(Cur).state.errors = state.errors
    /\ continueAfterPower(abortAfterPower(Cur)) = abortAfterPower(Cur)

\* a paused cycle was aborted
C17_Witness ==
  /\ ~state.powerFailure.pending
  /\ ~state.cycle.active
  /\ state.cycle.currentPhase = "IDLE"
  /\ state.cycle.currentProgram = Null
  /\ pausedCycle = Null
  /\ state.lastCompletedCycles # <<>>
  /\ state.lastCompletedCycles[1].primaryErrorCode = "POWER_ERROR"

\* C18: powerFail while no cycle is active (a failure pending or not), and
\* continueAfterPower and abortAfterPower while no failure is pending, change
\* nothing.
C18_PowerCommandsGuarded ==
  /\ ~state.cycle.active => powerFail(Cur, "grid outage") = Cur
  /\ ~state.powerFailure.pending => continueAfterPower(Cur) = Cur
  /\ ~state.powerFailure.pending => abortAfterPower(Cur) = Cur

\* a failure is pending and its cycle paused: a second powerFail would
\* overwrite the paused runtime
C18_Witness ==
  /\ state.powerFailure.pending
  /\ ~state.cycle.active
  /\ pausedCycle # Null
  /\ pausedCycle.active
  /\ pausedCycle.currentPhase = "STERILIZATION"

\* C20: startVacuumTest while a cycle is active changes nothing: not the
\* vacuum test, not the cycle, not the actuators.
C20_VacuumTestRejectedInCycle ==
  state.cycle.active =>
    \A config \in VacuumTestConfigs : startVacuumTest(Cur, config) = Cur

\* a cycle heats up with the heater on and no vacuum test
C20_Witness ==
  /\ state.cycle.active
  /\ state.cycle.currentPhase = "HEAT_UP"
  /\ ~state.vacuumTest.active
  /\ physical.heaterOn
  /\ ~physical.vacuumPumpOn

\* C19: a step is atomic with respect to commands.  While a call of tick is
\* in flight no command takes effect, so the rest of a step never finds the
\* cycle ended by a command and then moves it to another phase (other than
\* ERROR, by an alarm) or records a success for it.
C19_StepAtomic ==
  [][(inFlight # Null /\ inFlight' # inFlight /\ ~state.cycle.active)
       => /\ state'.cycle.currentPhase \in {state.cycle.currentPhase, "ERROR"}
          /\ \/ state'.lastCompletedCycles = state.lastCompletedCycles
             \/ state'.lastCompletedCycles[1].result # "success"]_vars

\* e with an empty history of vacuum tests
FreshVacuum(e) == [e EXCEPT !.state.lastVacuumTests = <<>>]

\* The vacuum test of b does not run in this step, and a is b.
VacuumTestIdle(b, a) ==
  /\ ~b.state.vacuumTest.active \/ b.state.cycle.active
  /\ a = b

\* The vacuum test of b stays in its sub-phase in this step, elapsed short of
\* limitSec, and a is b with the elapsed time advanced.
VacuumTestStays(b, a, phase, limitSec, dtSec) ==
  /\ b.state.vacuumTest.active /\ ~b.state.cycle.active
  /\ b.state.vacuumTest.phase = phase
  /\ b.state.vacuumTest.elapsedSec + dtSec < limitSec
  /\ a.state.vacuumTest =
       [b.state.vacuumTest EXCEPT !.elapsedSec = @ + dtSec]
  /\ a.state.lastVacuumTests = b.state.lastVacuumTests
  /\ a.currentVacuumStartPressure = b.currentVacuumStartPressure

\* The vacuum test of b leaves STABILIZE for TEST in this step: elapsed is 0
\* and the chamber pressure of the step is the baseline.
VacuumTestEntersTest(b, a, dtSec) ==
  /\ b.state.vacuumTest.active /\ ~b.state.cycle.active
  /\ b.state.vacuumTest.phase = "STABILIZE"
  /\ b.state.vacuumTest.elapsedSec + dtSec >=
       b.state.vacuumTest.stabilizationTimeSec
  /\ a.state.vacuumTest =
       [b.state.vacuumTest EXCEPT
          !.phase = "TEST", !.elapsedSec = 0,
          !.basePressureMPa = <<b.state.chamber.pressureMPa>>]
  /\ a.currentVacuumStartPressure = b.state.chamber.pressureMPa
  /\ a.state.lastVacuumTests = b.state.lastVacuumTests

\* The vacuum test of b, whose history is empty, completes in this step: one
\* result, the test inactive in IDLE with the verdict and the leak rate of
\* that result, pump, exhaust valve and inlet valve commanded off.
VacuumTestCompletes(b, a, dtSec) ==
  /\ b.state.vacuumTest.active /\ ~b.state.cycle.active
  /\ b.state.vacuumTest.phase = "TEST"
  /\ b.state.vacuumTest.elapsedSec + dtSec >= b.state.vacuumTest.testTimeSec
  /\ Len(a.state.lastVacuumTests) = 1
  /\ ~a.state.vacuumTest.active
  /\ a.state.vacuumTest.phase = "IDLE"
  /\ a.state.vacuumTest.elapsedSec = 0
  /\ a.state.vacuumTest.result \in {"PASS", "FAIL"}
  /\ a.state.vacuumTest.result = a.state.lastVacuumTests[1].result
  /\ a.state.vacuumTest.leakRateMPaPerMin =
       <<a.state.lastVacuumTests[1].leakRateMPaPerMin>>
  /\ ~a.physical.vacuumPumpOn
  /\ ~a.physical.steamExhaustValveOpen
  /\ ~a.physical.steamInletValveOpen

\* b is the engine of a step before its vacuum test, a after it and s at the
\* end of the step.
VacuumTestStep(b, a, s, dtSec) ==
  /\ \/ VacuumTestIdle(b, a)
     \/ VacuumTestStays(b, a, "STABILIZE",
                        b.state.vacuumTest.stabilizationTimeSec, dtSec)
     \/ VacuumTestEntersTest(b, a, dtSec)
     \/ VacuumTestStays(b, a, "TEST", b.state.vacuumTest.testTimeSec, dtSec)
     \/ VacuumTestCompletes(b, a, dtSec)
  /\ s.state.vacuumTest = a.state.vacuumTest
  /\ s.state.lastVacuumTests = a.state.lastVacuumTests
  /\ (b.state.vacuumTest.active /\ ~b.state.cycle.active)
       => s.physical = a.physical

\* C21: a vacuum test stays in STABILIZE while its elapsed time is short of
\* stabilizationTimeSec, then enters TEST with elapsed 0 and the chamber
\* pressure of that step as baseline, stays in TEST while elapsed is short of
\* testTimeSec, and the first step that reaches it adds exactly one result,
\* leaves the test inactive in IDLE with the verdict and leak rate kept, and
\* commands vacuum pump, exhaust valve and inlet valve off.
C21_VacuumTestSequence ==
  /\ \A config \in VacuumTestConfigs :
       ~state.cycle.active =>
          startVacuumTest(Cur, config).state.vacuumTest =
            [active |-> TRUE, phase |-> "STABILIZE", elapsedSec |-> 0,
             stabilizationTimeSec |-> config.stabilizationTimeSec,
             testTimeSec |-> config.testTimeSec,
             basePressureMPa |-> <<>>, result |-> "none",
             leakRateMPaPerMin |-> <<>>]
  /\ \A r \in Readings, dtMs \in DtChoices :
       VacuumTestStep(
         tickTimers(
           validateSensors(syncSensors(stepPhysics(FreshVacuum(Cur), r))),
           dtMs \div 1000),
         tickBeforePhase(stepPhysics(FreshVacuum(Cur), r), dtMs),
         Step(FreshVacuum(Cur), r, dtMs),
         dtMs \div 1000)

\* a vacuum test ran to its verdict: stabilized at 0 MPa, ended at 0.3 MPa
C21_Witness ==
  /\ ~state.vacuumTest.active
  /\ state.vacuumTest.phase = "IDLE"
  /\ state.vacuumTest.result = "FAIL"
  /\ Len(state.lastVacuumTests) = 1
  /\ ~physical.vacuumPumpOn
  /\ ~state.cycle.active
  /\ state.cycle.currentPhase = "IDLE"

\* The rise of the chamber pressure over the baseline, not below 0.
PressureRise(p0, p1) == Max(0, p1 - p0)

\* The result of a vacuum test with baseline p0 (0.001 MPa), final pressure p1
\* and testTimeSec seconds of test: its leak rate num/den is
\* PressureRise / (testTimeSec / 60), and it is PASS iff that is at most
\* 5 (0.005 MPa/min).
LeakResultIs(result, p0, p1, testTimeSec) ==
  /\ result.leakRateMPaPerMin.den > 0
  /\ result.leakRateMPaPerMin.num * testTimeSec =
       PressureRise(p0, p1) * 60 * result.leakRateMPaPerMin.den
  /\ (result.result = "PASS") <=> (PressureRise(p0, p1) * 60 <= 5 * testTimeSec)
  /\ result.result \in {"PASS", "FAIL"}

\* C22: the step that completes a vacuum test with baseline p0 captured at
\* the entry of TEST, chamber pressure p1 and a test of T > 0 minutes records
\* the leak rate max(0, p1 - p0) / T and the verdict PASS iff that rate is at
\* most 0.005 MPa/min.
C22_LeakRate ==
  (/\ state.vacuumTest.active /\ ~state.cycle.active
   /\ state.vacuumTest.phase = "TEST"
   /\ state.vacuumTest.testTimeSec > 0)
  => \A r \in LeakReadings \cup Readings, dtMs \in DtChoices :
       (/\ state.vacuumTest.elapsedSec + dtMs \div 1000
             >= state.vacuumTest.testTimeSec
        /\ ~Step(FreshVacuum(Cur), r, dtMs).state.cycle.active)
       => /\ Len(Step(FreshVacuum(Cur), r, dtMs).state.lastVacuumTests) = 1
          /\ LeakResultIs(
               Step(FreshVacuum(Cur), r, dtMs).state.lastVacuumTests[1],
               state.vacuumTest.basePressureMPa[1],
               Step(FreshVacuum(Cur), r, dtMs).state.chamber.pressureMPa,
               state.vacuumTest.testTimeSec)

\* a test of 1 minute that rose by exactly 0.005 MPa passed
C22_Witness ==
  /\ ~state.vacuumTest.active
  /\ state.vacuumTest.testTimeSec = 60
  /\ state.vacuumTest.result = "PASS"
  /\ state.vacuumTest.leakRateMPaPerMin = <<[num |-> 300, den |-> 60]>>
  /\ state.chamber.pressureMPa = 8

\* From e to t no alarm was raised and the history is the same, or one alarm
\* was raised: it is the last of the active errors of t and the first of the
\* history of t, followed by the history of e cut to the cap.
HistoryKept(e, t) ==
  \/ /\ t.state.errorHistory = e.state.errorHistory
     /\ t.state.errors \in {e.state.errors, <<>>}
  \/ /\ t.state.errors = Append(e.state.errors, t.state.errors[Len(t.state.errors)])
     /\ t.state.errorHistory =
          Slice(<<t.state.errors[Len(t.state.errors)]>> \o e.state.errorHistory,
                MaxErrorHistory)

\* C23: errorHistory never holds more than its cap (100 in the source,
\* MaxErrorHistory here); a raised alarm goes to its front and the oldest
\* event is dropped on overflow; nothing else changes it: resetErrors, a
\* successful startCycle and the other commands leave it as it is.
C23_ErrorHistory ==
  /\ Len(state.errorHistory) <= MaxErrorHistory
  /\ \A u \in AfterCommand(Cur) : u.state.errorHistory = state.errorHistory
  /\ resetErrors(Cur).state.errors = <<>>
  /\ \A programId \in ProgramIds \cup {UnknownProgramId} :
       /\ HistoryKept(Cur, startCycle(Cur, programId).e)
       /\ startCycle(Cur, programId).e.state.cycle.active
            => /\ startCycle(Cur, programId).e.state.errorHistory =
                    state.errorHistory
               /\ startCycle(Cur, programId).e.state.errors = <<>>
  /\ \A r \in Readings, dtMs \in DtChoices :
       HistoryKept(Cur, Step(Cur, r, dtMs))

\* the history is full, of different alarms, and the active list was reset
C23_Witness ==
  /\ Len(state.errorHistory) = MaxErrorHistory
  /\ state.errorHistory[1].code = "OVERPRESSURE"
  /\ state.errorHistory[MaxErrorHistory].code = "DOOR_OPEN"
  /\ state.errors = <<>>
  /\ state.cycle.currentPhase = "IDLE"

\* the calibration offsets after resetCalibrationOffsets
ZeroOffsets ==
  [chamberTempOffsetC |-> 0, chamberPressureOffset |-> 0,
   generatorTempOffsetC |-> 0, generatorPressureOffset |-> 0]

\* the reading r with the offsets o added to its temperatures and pressures
Calibrated(r, o) ==
  [r EXCEPT !.chamberPressureMPa = @ + o.chamberPressureOffset,
            !.chamberTemperatureC = @ + o.chamberTempOffsetC,
            !.generatorPressureMPa = @ + o.generatorPressureOffset,
            !.generatorTemperatureC = @ + o.generatorTempOffsetC]

\* e without its offsets and without the raw analog readings of the port
WithoutCalibration(e) ==
  [e EXCEPT !.state.calibrationOffsets = ZeroOffsets,
            !.physical = Spread(@, ColdReading)]

\* The step from e with the raw reading r mirrors reading plus offset, keeps
\* the offsets, and does everything else as the step without offsets does
\* with the reading Calibrated(r, offsets).
StepUsesCalibrated(e, r, dtMs) ==
  /\ Step(e, r, dtMs).state.chamber =
       [pressureMPa |->
          r.chamberPressureMPa + e.state.calibrationOffsets.chamberPressureOffset,
        temperatureC |->
          r.chamberTemperatureC + e.state.calibrationOffsets.chamberTempOffsetC]
  /\ Step(e, r, dtMs).state.generator =
       [pressureMPa |->
          r.generatorPressureMPa
            + e.state.calibrationOffsets.generatorPressureOffset,
        temperatureC |->
          r.generatorTemperatureC
            + e.state.calibrationOffsets.generatorTempOffsetC,
        waterLevelPercent |-> r.waterLevelPercent]
  /\ Step(e, r, dtMs).state.calibrationOffsets = e.state.calibrationOffsets
  /\ WithoutCalibration(Step(e, r, dtMs)) =
       WithoutCalibration(
         Step(resetCalibrationOffsets(e),
              Calibrated(r, e.state.calibrationOffsets), dtMs))

\* C24: a step mirrors temperatures and pressures of chamber and generator as
\* raw reading plus offset, and validates the sensors and evaluates the state
\* machine and the alarms on these values; setCalibrationOffsets overwrites
\* the supplied offsets only, resetCalibrationOffsets zeroes the four, and no
\* other command and no step changes the offsets.
C24_CalibrationOffsets ==
  /\ \A r \in Readings, dtMs \in DtChoices : StepUsesCalibrated(Cur, r, dtMs)
  /\ \A u \in AfterCommand(Cur) :
       u.state.calibrationOffsets = state.calibrationOffsets
  /\ \A programId \in ProgramIds \cup {UnknownProgramId} :
       startCycle(Cur, programId).e.state.calibrationOffsets =
         state.calibrationOffsets
  /\ \A offsets \in CalibrationInputs :
       /\ setCalibrationOffsets(Cur, offsets).state.calibrationOffsets =
            [k \in DOMAIN ZeroOffsets |->
               IF k \in DOMAIN offsets THEN offsets[k]
                                       ELSE state.calibrationOffsets[k]]
       /\ [setCalibrationOffsets(Cur, offsets)
             EXCEPT !.state.calibrationOffsets = state.calibrationOffsets] = Cur
  /\ resetCalibrationOffsets(Cur).state.calibrationOffsets = ZeroOffsets
  /\ [resetCalibrationOffsets(Cur)
        EXCEPT !.state.calibrationOffsets = state.calibrationOffsets] = Cur

\* both offsets set; a raw 0.3 MPa is mirrored as 0.4 MPa and raised
\* OVERPRESSURE
C24_Witness ==
  /\ state.calibrationOffsets.chamberPressureOffset = 100
  /\ state.calibrationOffsets.chamberTempOffsetC = 10
  /\ physical.chamberPressureMPa = 300
  /\ state.chamber.pressureMPa = 400
  /\ state.chamber.temperatureC = 144
  /\ state.errors # <<>>
  /\ state.errors[1].code = "OVERPRESSURE"

\* the override stored in e for programId: programOverrides[programId] || {}
StoredOverride(e, programId) ==
  IF programId \in DOMAIN e.state.programOverrides
    THEN e.state.programOverrides[programId]
    ELSE EmptyObject

\* program is the template overlaid field by field with override
Overlaid(program, template, override) ==
  /\ DOMAIN program = DOMAIN template
  /\ \A k \in DOMAIN template :
       program[k] = IF k \in DOMAIN override THEN override[k] ELSE template[k]

\* A successful startCycle(programId) from e runs the template overlaid with
\* the override stored in e.
StartsOverlaid(e, programId) ==
  (e.state.door.locked /\ ~e.state.door.open) =>
    /\ Overlaid(startCycle(e, programId).e.currentProgram,
                FindProgram(programId), StoredOverride(e, programId))
    /\ startCycle(e, programId).e.state.cycle.currentProgram =
         startCycle(e, programId).e.currentProgram

\* setProgramOverride(programId, override) on e changes the stored overrides
\* only, and there the override of programId only, field by field.
OverrideAccumulates(e, programId, override) ==
  /\ [setProgramOverride(e, programId, override)
        EXCEPT !.state.programOverrides = e.state.programOverrides] = e
  /\ DOMAIN setProgramOverride(e, programId, override).state.programOverrides =
       DOMAIN e.state.programOverrides \cup {programId}
  /\ \A id \in DOMAIN e.state.programOverrides \ {programId} :
       StoredOverride(setProgramOverride(e, programId, override), id) =
         StoredOverride(e, id)
  /\ DOMAIN StoredOverride(setProgramOverride(e, programId, override),
                           programId) =
       DOMAIN StoredOverride(e, programId) \cup DOMAIN override
  /\ \A k \in DOMAIN override :
       StoredOverride(setProgramOverride(e, programId, override),
                      programId)[k] = override[k]
  /\ \A k \in DOMAIN StoredOverride(e, programId) \ DOMAIN override :
       StoredOverride(setProgramOverride(e, programId, override),
                      programId)[k] = StoredOverride(e, programId)[k]

\* C25: startCycle runs the base template overlaid with the override stored
\* for the id at that moment; a setProgramOverride made afterwards leaves the
\* running program alone (steps go on exactly as without it) and is used by
\* the next startCycle; overrides of one id accumulate field by field; the
\* templates stay as configured.
C25_ProgramOverrides ==
  /\ \A programId \in ProgramIds : StartsOverlaid(Cur, programId)
  /\ \A programId \in OverrideIds, override \in OverrideInputs :
       /\ OverrideAccumulates(Cur, programId, override)
       /\ StartsOverlaid(setProgramOverride(Cur, programId, override), programId)
       /\ \A r \in Readings, dtMs \in DtChoices :
            Step(setProgramOverride(Cur, programId, override), r, dtMs) =
              [Step(Cur, r, dtMs) EXCEPT !.state.programOverrides =
                 setProgramOverride(Cur, programId, override)
                   .state.programOverrides]
  /\ \A p \in programs : FindProgram(p.id) = p
  /\ currentProgram # Null =>
       /\ FindProgram(currentProgram.id) # Null
       /\ DOMAIN currentProgram = DOMAIN FindProgram(currentProgram.id)

\* a cycle runs with the two pulses and the 90 s of the template while both
\* overrides, made after its start, are stored
C25_Witness ==
  /\ state.cycle.active
  /\ currentProgram # Null
  /\ currentProgram.preVacuumCount = 2
  /\ currentProgram.sterilizationTimeSec = 90
  /\ "prog_134" \in DOMAIN state.programOverrides
  /\ state.programOverrides["prog_134"] =
       [preVacuumCount |-> 1, sterilizationTimeSec |-> 60]
  /\ state.cycle.currentPhase = "PREVACUUM"
  /\ completedPrevacuums = 2

\* the values v are outside the ranges of the sensors: [-10, 200] C,
\* [-0.2, 0.5] MPa, [0, 110] %
OutOfRange(v) ==
  \/ v.chamberTemperatureC \notin -10..200
  \/ v.generatorTemperatureC \notin -10..200
  \/ v.chamberPressureMPa \notin -200..500
  \/ v.generatorPressureMPa \notin -200..500
  \/ v.waterLevelPercent \notin 0..110

\* The step from e (its histories empty) to s raised SENSOR_FAILURE and
\* nothing else, and ended the cycle where it was: timers and budget as in e.
OnlySensorFailure(e, s) ==
  /\ Len(s.state.errors) = Len(e.state.errors) + 1
  /\ s.state.errors[Len(s.state.errors)].code = "SENSOR_FAILURE"
  /\ SubSeq(s.state.errors, 1, Len(e.state.errors)) = e.state.errors
  /\ Len(s.state.errorHistory) = 1
  /\ s.state.errorHistory[1].code = "SENSOR_FAILURE"
  /\ ~s.state.cycle.active
  /\ s.state.cycle = [e.state.cycle EXCEPT !.currentPhase = "ERROR",
                                           !.active = FALSE]
  /\ s.completedPrevacuums = e.completedPrevacuums
  /\ s.sterilizationTempLowSec = e.sterilizationTempLowSec

\* C26: a step that starts with the phase not ERROR and reads a calibrated
\* temperature, pressure or water level outside its range raises
\* SENSOR_FAILURE and no other alarm, and ends an active cycle without
\* advancing timers or phase; a step whose values are all in range does not
\* raise SENSOR_FAILURE.
C26_SensorFailure ==
  \A r \in Readings \cup RangeReadings, dtMs \in DtChoices :
    /\ (state.cycle.currentPhase # "ERROR"
          /\ OutOfRange(Calibrated(r, state.calibrationOffsets)))
         => OnlySensorFailure(Fresh(Cur), Step(Fresh(Cur), r, dtMs))
    /\ ~OutOfRange(Calibrated(r, state.calibrationOffsets))
         => ~HasCode(Step(Fresh(Cur), r, dtMs).state.errorHistory,
                     "SENSOR_FAILURE")

\* the hold of a cycle ended by a sensor failure: a raw 0.3 MPa with the
\* offset 0.25 MPa
C26_Witness ==
  /\ state.cycle.currentPhase = "ERROR"
  /\ ~state.cycle.active
  /\ state.cycle.currentProgram # Null
  /\ state.cycle.totalElapsedSecSec > 0
  /\ state.errors # <<>>
  /\ state.errors[Len(state.errors)].code = "SENSOR_FAILURE"
  /\ state.chamber.pressureMPa = 550
  /\ physical.chamberPressureMPa = 300

\* the actuators as commanded for a pressure release: heater and steam inlet
\* not on, exhaust open
PressureRelease(p) ==
  /\ ~p.heaterOn
  /\ ~p.steamInletValveOpen
  /\ p.steamExhaustValveOpen

\* C27: stopCycle during a cycle, in whatever phase, leaves the port in a
\* pressure-release configuration, and the steps that follow keep it there.
C27_StopReleasesPressure ==
  state.cycle.active =>
    \A t \in {stopCycle(Cur)} \cup AfterStep(stopCycle(Cur)) :
      PressureRelease(t.physical)

\* The values v raise none of the alarms that a step checks before those of
\* the phases: sensors in range, no overpressure, water present, and no
\* overtemperature for the program.
RaisesNoEarlierAlarm(v, program) ==
  /\ ~OutOfRange(v)
  /\ v.chamberPressureMPa <= 350
  /\ v.waterLevelPercent >= 5
  /\ v.chamberTemperatureC <= program.setTempC + 8

\* The step from e, its histories empty, raises the alarm code and ends in
\* ERROR.
StepRaises(e, r, dtMs, code) ==
  /\ HasCode(Step(Fresh(e), r, dtMs).state.errorHistory, code)
  /\ Step(Fresh(e), r, dtMs).state.cycle.currentPhase = "ERROR"
  /\ ~Step(Fresh(e), r, dtMs).state.cycle.active

\* C28: a step of a cycle in PREVACUUM whose phase-elapsed time exceeds the
\* pulse budget by more than 5 s while the chamber pressure is above 0.05 MPa
\* raises VACUUM_FAIL, so that the cycle ends in ERROR and does not proceed
\* to HEAT_UP.
C28_VacuumFailLive ==
  \A r \in Readings, dtMs \in DtChoices :
    (/\ state.cycle.active
     /\ currentProgram # Null
     /\ state.cycle.currentPhase = "PREVACUUM"
     /\ state.cycle.phaseElapsedSec + dtMs \div 1000
          > state.cycle.phaseTotalSec + 5
     /\ Calibrated(r, state.calibrationOffsets).chamberPressureMPa > 50
     /\ RaisesNoEarlierAlarm(Calibrated(r, state.calibrationOffsets),
                             currentProgram))
    => StepRaises(Cur, r, dtMs, "VACUUM_FAIL")

\* C29: a step of a cycle in HEAT_UP whose phase-elapsed time exceeds the
\* HEAT_UP budget by more than 30 s while the chamber temperature is below
\* setTempC - 5 raises HEATING_TIMEOUT.
C29_HeatingTimeoutLive ==
  \A r \in Readings, dtMs \in DtChoices \cup LateDtChoices :
    (/\ state.cycle.active
     /\ currentProgram # Null
     /\ state.cycle.currentPhase = "HEAT_UP"
     /\ state.cycle.phaseElapsedSec + dtMs \div 1000
          > state.cycle.phaseTotalSec + 30
     /\ Calibrated(r, state.calibrationOffsets).chamberTemperatureC
          < currentProgram.setTempC - 5
     /\ RaisesNoEarlierAlarm(Calibrated(r, state.calibrationOffsets),
                             currentProgram))
    => StepRaises(Cur, r, dtMs, "HEATING_TIMEOUT")

\* The event of the under-temperature check of the hold.
HoldLowEvent ==
  [code |-> "HEATING_TIMEOUT", message |-> "sterilization temperature stays low"]

RaisesHoldLow(e) ==
  \E i \in 1..Len(e.state.errorHistory) : e.state.errorHistory[i] = HoldLowEvent

\* The seconds of a step of dtMs with the reading r during which the chamber
\* is more than 3 C below the set temperature of the program of e.
HoldLowSec(e, r, dtMs) ==
  IF Calibrated(r, e.state.calibrationOffsets).chamberTemperatureC
       < e.currentProgram.setTempC - 3
    THEN dtMs \div 1000
    ELSE 0

\* The readings that raise none of the earlier alarms in the cycle of e.
HoldReadings(e) ==
  {r \in Readings :
     RaisesNoEarlierAlarm(Calibrated(r, e.state.calibrationOffsets),
                          e.currentProgram)}

\* One, two and three steps of the hold from e, its histories empty.
HoldStep1(e, r1, dtMs) == Step(Fresh(e), r1, dtMs)
HoldStep2(e, r1, r2, dtMs) == Step(HoldStep1(e, r1, dtMs), r2, dtMs)
HoldStep3(e, r1, r2, r3, dtMs) == Step(HoldStep2(e, r1, r2, dtMs), r3, dtMs)

\* e is a cycle that has just entered STERILIZATION, with room for three
\* steps of dtMs before the hold is over.
HoldStarts(e, dtMs) ==
  /\ e.state.cycle.active
  /\ e.currentProgram # Null
  /\ e.state.cycle.currentPhase = "STERILIZATION"
  /\ e.state.cycle.phaseElapsedSec = 0
  /\ ~e.physical.doorOpen
  /\ 3 * (dtMs \div 1000) < e.currentProgram.sterilizationTimeSec

\* C30: the under-temperature alarm of the hold fires exactly when the time
\* spent more than 3 C below setTempC, summed over the steps of the current
\* STERILIZATION phase, exceeds 30 s: a step that begins in another phase
\* never raises it, and over the first three steps of a hold it is raised by
\* the first step at which the sum exceeds 30 s, a recovery in between
\* erasing nothing.
C30_HoldUnderTemperature ==
  /\ \A r \in Readings, dtMs \in HoldDtChoices \cup DtChoices :
       (state.cycle.active /\ state.cycle.currentPhase # "STERILIZATION")
         => ~RaisesHoldLow(HoldStep1(Cur, r, dtMs))
  /\ \A dtMs \in HoldDtChoices :
       HoldStarts(Cur, dtMs) =>
         \A r1 \in HoldReadings(Cur), r2 \in HoldReadings(Cur),
            r3 \in HoldReadings(Cur) :
           /\ RaisesHoldLow(HoldStep1(Cur, r1, dtMs))
                <=> HoldLowSec(Cur, r1, dtMs) > 30
           /\ HoldLowSec(Cur, r1, dtMs) <= 30
                => (RaisesHoldLow(HoldStep2(Cur, r1, r2, dtMs))
                      <=> HoldLowSec(Cur, r1, dtMs)
                            + HoldLowSec(Cur, r2, dtMs) > 30)
           /\ HoldLowSec(Cur, r1, dtMs) + HoldLowSec(Cur, r2, dtMs) <= 30
                => (RaisesHoldLow(HoldStep3(Cur, r1, r2, r3, dtMs))
                      <=> HoldLowSec(Cur, r1, dtMs) + HoldLowSec(Cur, r2, dtMs)
                            + HoldLowSec(Cur, r3, dtMs) > 30)

\* C31: OVERTEMP is raised only while a cycle is active.  A step taken with
\* no cycle active raises no OVERTEMP whatever the in-range reading, and a
\* step of an active cycle whose chamber temperature exceeds setTempC + 8
\* (no earlier check of the step raising its own alarm) raises OVERTEMP.
C31_OvertempOnlyWhenActive ==
  /\ \A r \in Readings, dtMs \in DtChoices :
       (/\ ~state.cycle.active
        /\ ~OutOfRange(Calibrated(r, state.calibrationOffsets)))
       => ~HasCode(Step(Fresh(Cur), r, dtMs).state.errorHistory, "OVERTEMP")
  /\ \A r \in Readings, dtMs \in DtChoices :
       (/\ state.cycle.active
        /\ currentProgram # Null
        /\ ~OutOfRange(Calibrated(r, state.calibrationOffsets))
        /\ Calibrated(r, state.calibrationOffsets).chamberPressureMPa <= 350
        /\ Calibrated(r, state.calibrationOffsets).waterLevelPercent >= 5
        /\ Calibrated(r, state.calibrationOffsets).chamberTemperatureC
             > currentProgram.setTempC + 8)
       => StepRaises(Cur, r, dtMs, "OVERTEMP")

\* The engine e after the port has taken the reading r and the step has
\* mirrored the sensors and advanced the timers by dtMs, nothing validated.
TimersAdvanced(e, r, dtMs) ==
  tickTimers(syncSensors(stepPhysics(e, r)), dtMs \div 1000)

\* The step from e with the reading r finds the guard of the transition of
\* the current phase true.
TransitionGuard(e, r, dtMs) ==
  /\ e.state.cycle.active
  /\ e.currentProgram # Null
  /\ e.state.cycle.currentPhase \in RunningPhases
  /\ tickPhaseTransits(TimersAdvanced(e, r, dtMs),
                       e.state.cycle.currentPhase, e.currentProgram)

\* The conditions of the alarms that are read off the sensors.
SensorAlarmCondition(e, r) == OutOfRange(Calibrated(r, e.state.calibrationOffsets))
ProcessAlarmCondition(e, r) ==
  \/ Calibrated(r, e.state.calibrationOffsets).chamberPressureMPa > 350
  \/ Calibrated(r, e.state.calibrationOffsets).waterLevelPercent < 5
  \/ Calibrated(r, e.state.calibrationOffsets).chamberTemperatureC
       > e.currentProgram.setTempC + 8
DoorAlarmCondition(e) == e.physical.doorOpen

\* the four actuators that the cases of the state machine command
PhaseActuators(p) ==
  [heaterOn |-> p.heaterOn, steamInletValveOpen |-> p.steamInletValveOpen,
   steamExhaustValveOpen |-> p.steamExhaustValveOpen,
   vacuumPumpOn |-> p.vacuumPumpOn]

\* t is e after a step of dtMs that applied the transition of the phase of
\* e: timers advanced, actuators of the phase written, the new phase entered
\* with its elapsed time at 0 and its budget set.
TransitionApplied(e, r, dtMs, t) ==
  /\ t.state.cycle.totalElapsedSecSec
       = e.state.cycle.totalElapsedSecSec + dtMs \div 1000
  /\ t.state.cycle.phaseElapsedSec = 0
  /\ t.state.cycle.phaseTotalSec
       = setPhase(e,
           tickPhaseTarget(e, e.state.cycle.currentPhase, e.currentProgram)[1],
           tickPhaseTarget(e, e.state.cycle.currentPhase, e.currentProgram)[2]
         ).state.cycle.phaseTotalSec
  /\ PhaseActuators(t.physical)
       = PhaseActuators(
           tickPhaseWrite(TimersAdvanced(e, r, dtMs),
                          e.state.cycle.currentPhase, e.currentProgram).physical)

\* t is e after a step that applied nothing of the cycle: timers, budget and
\* actuators as they were.
NothingApplied(e, t) ==
  /\ t.state.cycle.totalElapsedSecSec = e.state.cycle.totalElapsedSecSec
  /\ t.state.cycle.phaseElapsedSec = e.state.cycle.phaseElapsedSec
  /\ t.state.cycle.phaseTotalSec = e.state.cycle.phaseTotalSec
  /\ PhaseActuators(t.physical) = PhaseActuators(e.physical)

EndsInError(t) ==
  /\ t.state.cycle.currentPhase = "ERROR"
  /\ ~t.state.cycle.active

DoorOpenEvent == [code |-> "DOOR_OPEN", message |-> "door open during the cycle"]

\* t, the histories empty before the step, is a cycle ended in ERROR by
\* exactly one event: the door's, unless the sensors or the hold raised an
\* alarm of another code before the door was checked.
EndedByOneAlarm(e, r, t) ==
  /\ EndsInError(t)
  /\ Len(t.state.errorHistory) = 1
  /\ t.state.errors = Append(e.state.errors, t.state.errorHistory[1])
  /\ \/ t.state.errorHistory[1] = DoorOpenEvent
     \/ t.state.errorHistory[1].code # "DOOR_OPEN"
  /\ \/ t.state.errorHistory[1] = DoorOpenEvent
     \/ SensorAlarmCondition(e, r)
     \/ ProcessAlarmCondition(e, r)
     \/ t.state.errorHistory[1] = HoldLowEvent

\* C33: a step that observes the door open while a cycle is active ends
\* with the cycle inactive in ERROR and one new event recorded, DOOR_OPEN
\* unless an earlier check of the step raised its own; after every step
\* cycle.active and door.open do not both hold.
C33_DoorOpenRaisesError ==
  \A r \in AlarmReadings, dtMs \in DtChoices :
    /\ (state.cycle.active /\ physical.doorOpen)
       => EndedByOneAlarm(Cur, r, Step(Fresh(Cur), r, dtMs))
    /\ ~(/\ Step(Cur, r, dtMs).state.cycle.active
         /\ Step(Cur, r, dtMs).state.door.open)

\* The time budget of a phase: the value that the guard of its case of the
\* state machine compares the elapsed time with.
PhaseBudget(phase, program) ==
  CASE phase = "PREHEAT" -> PHASE_DEFAULTS.PREHEAT
    [] phase = "PREVACUUM" -> PHASE_DEFAULTS.PREVACUUM
    [] phase = "HEAT_UP" -> PHASE_DEFAULTS.HEAT_UP
    [] phase = "STERILIZATION" -> program.sterilizationTimeSec
    [] phase = "DRYING" -> DryingBudget(program)
    [] phase = "DEPRESSURIZE" -> 20
    [] phase = "COOLING" -> 40

\* t is e after an operation that entered a phase of the cycle.
EntersPhase(e, t) ==
  /\ t.state.cycle.active
  /\ \/ ~e.state.cycle.active
     \/ t.state.cycle.currentPhase # e.state.cycle.currentPhase
     \/ t.completedPrevacuums # e.completedPrevacuums

\* C34: while a cycle is active, phaseTotalSec is the time budget of the
\* current phase (60, 20, 90, 20 and 40 s for PREHEAT, PREVACUUM, HEAT_UP,
\* DEPRESSURIZE and COOLING, the program's hold time for STERILIZATION, its
\* drying time or 30 s for DRYING), and every entry of a phase, by startCycle
\* or by a step, leaves phaseElapsedSec at 0.
C34_PhaseBudget ==
  /\ (state.cycle.active /\ currentProgram # Null)
     => /\ state.cycle.currentPhase \in RunningPhases
        /\ state.cycle.phaseTotalSec
             = PhaseBudget(state.cycle.currentPhase, currentProgram)
  /\ \A r \in Readings, dtMs \in DtChoices :
       EntersPhase(Cur, Step(Cur, r, dtMs))
         => Step(Cur, r, dtMs).state.cycle.phaseElapsedSec = 0
  /\ \A programId \in ProgramIds :
       EntersPhase(Cur, startCycle(Cur, programId).e)
         => startCycle(Cur, programId).e.state.cycle.phaseElapsedSec = 0

\* the four actuators of p are off
AllOff(p) ==
  /\ ~p.heaterOn
  /\ ~p.steamInletValveOpen
  /\ ~p.steamExhaustValveOpen
  /\ ~p.vacuumPumpOn

\* C35: a step that brings the cycle to COMPLETE leaves heater, steam inlet
\* valve, steam exhaust valve and vacuum pump off, and from a cycle in
\* COMPLETE with the four off no step, whatever it reads, turns one on.
C35_CompleteAllOff ==
  \A r \in Readings, dtMs \in DtChoices :
    /\ (/\ state.cycle.active
        /\ Step(Cur, r, dtMs).state.cycle.currentPhase = "COMPLETE")
       => AllOff(Step(Cur, r, dtMs).physical)
    /\ (/\ state.cycle.currentPhase = "COMPLETE"
        /\ AllOff(physical))
       => AllOff(Step(Cur, r, dtMs).physical)

\* C36: with no command issued and steps that keep occurring, every active
\* cycle eventually becomes inactive, in COMPLETE or in ERROR, whatever the
\* sensors read.
C36_CycleTerminates ==
  state.cycle.active
    ~> (~state.cycle.active /\ state.cycle.currentPhase \in {"COMPLETE", "ERROR"})

\* A cycle of two vacuum pulses that has come to COMPLETE with a cold
\* chamber, every phase after the hold left on its budget.
C36_Witness ==
  /\ ~state.cycle.active
  /\ state.cycle.currentPhase = "COMPLETE"
  /\ currentProgram # Null
  /\ completedPrevacuums = 2
  /\ state.chamber.temperatureC = 20
  /\ state.cycle.totalElapsedSecSec > 0

\* e is a cycle that has just entered STERILIZATION with a hold time that
\* exceeds 30 s by more than a step of dtMs.
HoldBegins(e, dtMs) ==
  /\ e.state.cycle.active
  /\ e.currentProgram # Null
  /\ e.state.cycle.currentPhase = "STERILIZATION"
  /\ e.state.cycle.phaseElapsedSec = 0
  /\ e.currentProgram.sterilizationTimeSec > 30 + dtMs \div 1000

NoSuccess(t) ==
  \A i \in 1..Len(t.state.lastCompletedCycles) :
    t.state.lastCompletedCycles[i].result # "success"

\* C37: a hold whose every step observes the chamber more than 3 C below
\* setTempC, in a program whose hold time exceeds 30 s by more than a step,
\* does not come to a success: the first step leaves the cycle in
\* STERILIZATION or in ERROR, the second leaves it inactive in ERROR, no
\* summary of either step or of a step after them has the result 'success'.
C37_NoSuccessWithoutTemperature ==
  \A dtMs \in DtChoices \cup HoldDtChoices :
    HoldBegins(Cur, dtMs) =>
      \A r1 \in AlarmReadings, r2 \in AlarmReadings :
        (/\ HoldLowSec(Cur, r1, dtMs) > 0
         /\ HoldLowSec(Cur, r2, dtMs) > 0)
        => /\ \/ EndsInError(HoldStep1(Cur, r1, dtMs))
              \/ /\ HoldStep1(Cur, r1, dtMs).state.cycle.active
                 /\ HoldStep1(Cur, r1, dtMs).state.cycle.currentPhase
                      = "STERILIZATION"
           /\ EndsInError(HoldStep2(Cur, r1, r2, dtMs))
           /\ NoSuccess(HoldStep2(Cur, r1, r2, dtMs))
           /\ \A t \in AfterStep(HoldStep2(Cur, r1, r2, dtMs)) :
                EndsInError(t) /\ NoSuccess(t)

\* A hold of 90 s ended by the under-temperature check after two cold steps.
C37_Witness ==
  /\ state.cycle.currentPhase = "ERROR"
  /\ ~state.cycle.active
  /\ currentProgram # Null
  /\ currentProgram.sterilizationTimeSec = 90
  /\ state.cycle.phaseTotalSec = 90
  /\ state.cycle.phaseElapsedSec = 60
  /\ sterilizationTempLowSec = 60
  /\ Len(state.errors) = 1
  /\ state.errors[1] = HoldLowEvent
  /\ Len(state.lastCompletedCycles) > 0
  /\ state.lastCompletedCycles[1].result = "error"

\* C38: in every state, an active cycle is in one of the seven running
\* phases, has no power failure pending and carries the program that the
\* state machine and the alarm checks use; and a pending power failure has
\* a paused runtime held.
C38_ActiveCycleConsistent ==
  /\ state.cycle.active
     => /\ state.cycle.currentPhase \in RunningPhases
        /\ ~state.powerFailure.pending
        /\ state.cycle.currentProgram # Null
        /\ state.cycle.currentProgram = currentProgram
  /\ state.powerFailure.pending => pausedCycle # Null

\* A cycle started over a power failure that was neither continued nor
\* aborted: the paused runtime of the other program is still held.
C38_Witness ==
  /\ state.cycle.active
  /\ ~state.powerFailure.pending
  /\ pausedCycle # Null
  /\ pausedCycle.currentProgram # currentProgram
  /\ state.cycle.totalElapsedSecSec > 0

\* The code of the first of the checks read off the sensors whose condition
\* holds in the step from e with the reading r, in the order of the step:
\* sensor failure, overpressure, no water, overtemperature.
FirstAlarmCode(e, r) ==
  IF OutOfRange(Calibrated(r, e.state.calibrationOffsets))
    THEN "SENSOR_FAILURE"
  ELSE IF Calibrated(r, e.state.calibrationOffsets).chamberPressureMPa > 350
    THEN "OVERPRESSURE"
  ELSE IF Calibrated(r, e.state.calibrationOffsets).waterLevelPercent < 5
    THEN "NO_WATER"
  ELSE IF /\ e.currentProgram # Null
          /\ Calibrated(r, e.state.calibrationOffsets).chamberTemperatureC
               > e.currentProgram.setTempC + 8
    THEN "OVERTEMP"
  ELSE "none"

\* t is e with exactly one event added, at the end of the active list and
\* at the head of the history (whose oldest event leaves when it is full).
AddsOneEvent(e, t) ==
  /\ Len(t.state.errors) = Len(e.state.errors) + 1
  /\ t.state.errors = Append(e.state.errors, t.state.errors[Len(t.state.errors)])
  /\ t.state.errorHistory =
       Slice(<<t.state.errors[Len(t.state.errors)]>> \o e.state.errorHistory,
             MaxErrorHistory)

AddsNoEvent(e, t) ==
  /\ t.state.errors = e.state.errors
  /\ t.state.errorHistory = e.state.errorHistory

\* the event that t has last added
LastEvent(t) == t.state.errors[Len(t.state.errors)]

\* The step from e finds the hold more than 30 s too cold, the hold not over.
HoldLowCondition(e, r, dtMs) ==
  /\ e.state.cycle.active
  /\ e.currentProgram # Null
  /\ e.state.cycle.currentPhase = "STERILIZATION"
  /\ HoldLowSec(e, r, dtMs) > 0
  /\ e.sterilizationTempLowSec + dtMs \div 1000 > 30
  /\ e.state.cycle.phaseElapsedSec + dtMs \div 1000
       < e.currentProgram.sterilizationTimeSec

\* C39: a step or a command adds at most one event.  A step that starts in
\* ERROR adds none; a step in which one or several of the conditions read
\* off the sensors hold adds exactly the event of the first in the order
\* sensor failure, overpressure, no water, overtemperature; with none of
\* them, the under-temperature of the hold comes before the door, and a
\* DOOR_OPEN event is added only with the door open.  The active list and
\* the history receive the same one event.
C39_OneEventPerStep ==
  /\ \A r \in AlarmReadings, dtMs \in DtChoices :
       /\ \/ AddsNoEvent(Cur, Step(Cur, r, dtMs))
          \/ AddsOneEvent(Cur, Step(Cur, r, dtMs))
       /\ state.cycle.currentPhase = "ERROR"
            => AddsNoEvent(Cur, Step(Cur, r, dtMs))
       /\ (state.cycle.currentPhase # "ERROR" /\ FirstAlarmCode(Cur, r) # "none")
            => /\ AddsOneEvent(Cur, Step(Cur, r, dtMs))
               /\ LastEvent(Step(Cur, r, dtMs)).code = FirstAlarmCode(Cur, r)
       /\ (/\ state.cycle.currentPhase # "ERROR"
           /\ FirstAlarmCode(Cur, r) = "none"
           /\ AddsOneEvent(Cur, Step(Cur, r, dtMs)))
            => /\ LastEvent(Step(Cur, r, dtMs)).code
                    \in {"HEATING_TIMEOUT", "VACUUM_FAIL", "DOOR_OPEN"}
               /\ LastEvent(Step(Cur, r, dtMs)).code = "DOOR_OPEN"
                    => /\ physical.doorOpen
                       /\ ~HoldLowCondition(Cur, r, dtMs)
       /\ (FirstAlarmCode(Cur, r) = "none" /\ HoldLowCondition(Cur, r, dtMs))
            => /\ AddsOneEvent(Cur, Step(Cur, r, dtMs))
               /\ LastEvent(Step(Cur, r, dtMs)) = HoldLowEvent
  /\ \A u \in AfterCommand(Cur) :
       /\ u.state.errors \in {state.errors, <<>>}
       /\ u.state.errorHistory = state.errorHistory
  /\ \A programId \in ProgramIds \cup {UnknownProgramId} :
       \/ AddsOneEvent(Cur, startCycle(Cur, programId).e)
       \/ /\ startCycle(Cur, programId).e.state.errors \in {state.errors, <<>>}
          /\ startCycle(Cur, programId).e.state.errorHistory
               = state.errorHistory

\* A step that found the pressure and the temperature over their limits and
\* the door open has left the one event of the overpressure.
C39_Witness ==
  /\ state.cycle.currentPhase = "ERROR"
  /\ currentProgram # Null
  /\ state.chamber.pressureMPa > 350
  /\ state.chamber.temperatureC > currentProgram.setTempC + 8
  /\ state.door.open
  /\ state.errors = <<OverpressureEvent>>
  /\ Len(state.errorHistory) > 0
  /\ state.errorHistory[1] = OverpressureEvent

\* what an operation can leave from e: a command, a startCycle, or a step
AfterOperation(e) ==
  AfterCommand(e) \cup AfterStep(e)
    \cup {startCycle(e, programId).e : programId \in ProgramIds}

\* C40: over the simulation backend closeDoor leaves the door closed and
\* locked and openDoor only unlocks it, neither changing anything else; no
\* operation turns the door-open flag of the port from false to true, and
\* every step then mirrors the door as not open; and after an
\* openDoor during an active cycle with the door closed every step is the
\* step of the locked door but for the lock and its mirror: the cycle is not
\* ended by it.
C40_DoorCommands ==
  /\ closeDoor(Cur)
       = [Cur EXCEPT !.physical.doorLocked = TRUE, !.physical.doorOpen = FALSE]
  /\ openDoor(Cur) = [Cur EXCEPT !.physical.doorLocked = FALSE]
  /\ ~physical.doorOpen
       => /\ \A u \in AfterOperation(Cur) : ~u.physical.doorOpen
          /\ \A u \in AfterStep(Cur) : ~u.state.door.open
  /\ (state.cycle.active /\ ~physical.doorOpen)
       => \A r \in Readings, dtMs \in DtChoices :
            Step(openDoor(Cur), r, dtMs)
              = [Step(Cur, r, dtMs) EXCEPT !.physical.doorLocked = FALSE,
                                           !.state.door.locked = FALSE]

\* A cycle that runs on, a step after the door was unlocked.
C40_Witness ==
  /\ state.cycle.active
  /\ state.cycle.phaseElapsedSec > 0
  /\ ~state.door.locked
  /\ ~state.door.open
  /\ ~physical.doorLocked
  /\ ~physical.doorOpen

====
